---- MODULE Spec2Model ----
(***************************************************************************)
(* Conversation / tool-orchestration engine of the Maya AI agent:          *)
(*   ChatWidget      (chat_widget.py)     the controller, main thread      *)
(*   LLMWorker       (llm_worker.py)      one background thread per request*)
(*   ActionExecutor  (action_executor.py) tool dispatch on the main thread *)
(*   ConfirmDialog   (confirm_dialog.py)  modal confirmation, class flag   *)
(* Worker signals reach the controller through Qt's queued connections     *)
(* (variable queue, FIFO); maya.utils.executeDeferred callbacks wait in    *)
(* the idle queue (variable deferred, FIFO); ActionExecutor's signals are  *)
(* direct calls because emitter and receiver live in the main thread.      *)
(***************************************************************************)
EXTENDS Integers, Sequences, FiniteSets, TLC

\* ---------------------------------------------------------------- constants
MAX_TOOL_ROUNDS == 10
_MAX_RETRIES == 3
_RETRYABLE_HTTP_CODES == {429, 500, 502, 503}
\* _RETRY_BACKOFF_BASE = 1.5 seconds, here in tenths of a second.
_RETRY_BACKOFF_BASE == 15

\* response_cache.py: the shortest response store() keeps.
MinResponseLen == 10
\* history_manager.py: records kept in memory; SIMILARITY_THRESHOLD = 0.75,
\* here in hundredths.
MAX_MEMORY_RECORDS == 2000
SIMILARITY_THRESHOLD == 75
\* command_shortcut.py: the longest input try_shortcut looks at.
MaxShortcutLen == 30

\* Tool registry after startup registration: the tools package imports each
\* tool module under _safe_import, so the tools of a module that failed to
\* import (here workflow_tools) are missing. tools/vision_tool.py is not in
\* the package's list: its tool is registered when the module is first
\* imported, by build_messages.
RegisteredTools == {"zero_out_transforms"}
\* Names an LLM may put in a tool call: a registered one and an unknown one.
ToolNames == {"zero_out_transforms", "no_such_tool"}
\* The arguments string of a call: well-formed JSON or not.
ArgStrings == {"json", "malformed"}
\* What a registered callable does when invoked.
ToolOutcomes == {"dict_ok", "dict_fail", "non_dict", "raise"}
\* The characters in one streamed chunk: enough for store() or one short.
ChunkLens == {MinResponseLen, MinResponseLen - 1}
\* What urlopen yields: 200 is a response body, 0 is URLError (no response).
HttpOutcomes == {200, 0, 400, 401, 429, 500, 504}

\* ------------------------------------------------------------------- bounds
\* A run is bounded by the number of LLMWorker objects it may create and by
\* the number of irregular events in it: a stop, a clear, a submission after
\* the first, or an irregular answer of the provider or of a tool (an HTTP or
\* network failure, a body that ends early, a second call in a batch, an
\* unknown tool, malformed arguments, a tool that fails, ...).
\* Specification Spec.
MaxWorkers == 3
MaxEvents == 2
\* Specification SpecCore: the same program under the smallest budget.
CoreWorkers == 2
CoreEvents == 1
\* Specification SpecLoop: regular rounds only, up to the start of SpecCap.
LoopWorkers == 9
LoopEvents == 0
\* Specification SpecCap: the program from the state in which CapRounds
\* regular tool rounds of one turn are complete.
CapRounds == 8
CapWorkers == 11
CapEvents == 1
\* Specification SpecRetry: one request, one irregular event, and enough
\* failures of urlopen on top of it for every retry to fail.
RetryWorkers == 1
RetryEvents == 1
RetryFailures == 3
\* Specification SpecCache: calls of the cache and history API on their own.
CacheOps == 4
\* MAX_CACHE_SIZE is 200 in response_cache.py; it is scaled down so that the
\* few keys of the model overflow it.
MAX_CACHE_SIZE == 2
\* Specification SpecPrompt: calls of the Prompt Builder on their own.
PromptOps == 6
\* _build_messages passes max_history=20 and build_messages defaults to
\* max_rounds=10; both are scaled down so that the short conversations of the
\* model overflow them.
MaxHistory == 3
MaxRounds == 2
\* Per request: content chunks streamed, tool calls in one batch.
MaxChunks == 1
MaxBatch == 2

VARIABLES
    chat,          \* the ChatWidget instance's fields
    workers,       \* every LLMWorker created so far, by index
    queue,         \* queued signal deliveries from worker threads, FIFO
    deferred,      \* pending executeDeferred callbacks, FIFO
    dialogs,       \* open ConfirmDialog.exec_() calls, innermost last
    auto_approve,  \* ConfirmDialog._auto_approve (class-level)
    hist,          \* history variables used to state the properties
    left,          \* what remains of the exploration budgets
    memory_cache,  \* response_cache._memory_cache: key -> entry
    _records,      \* HistoryManager._records
    now,           \* time.time(), in seconds
    last_call,     \* the latest call of the cache or history API, with its result
    _tools,        \* ToolRegistry._tools: the names registered
    _STATIC_SYSTEM_PROMPT_CACHE, \* prompt_builder's cached static prompt
    _pending_viewport_image,     \* vision_tool's stored capture, NoImage for None
    undo_depth     \* the undo chunks of Maya that are open

vars == <<chat, workers, queue, deferred, dialogs, auto_approve, hist, left,
          memory_cache, _records, now, last_call,
          _tools, _STATIC_SYSTEM_PROMPT_CACHE, _pending_viewport_image,
          undo_depth>>

\* What no step of a worker thread touches.
services == <<memory_cache, _records, now, last_call,
              _tools, _STATIC_SYSTEM_PROMPT_CACHE, _pending_viewport_image,
              undo_depth>>

\* ----------------------------------------------------------------- messages
NoText == <<>>

UserMsg(text) ==
    [role |-> "user", content |-> text, tool_calls |-> <<>>,
     tool_call_id |-> 0, success |-> TRUE]

AssistantMsg(text) ==
    [role |-> "assistant", content |-> text, tool_calls |-> <<>>,
     tool_call_id |-> 0, success |-> TRUE]

AssistantToolMsg(text, calls) ==
    [role |-> "assistant", content |-> text, tool_calls |-> calls,
     tool_call_id |-> 0, success |-> TRUE]

ToolMsg(call_id, ok) ==
    [role |-> "tool", content |-> NoText, tool_calls |-> <<>>,
     tool_call_id |-> call_id, success |-> ok]

CallIds(calls) == [i \in 1..Len(calls) |-> calls[i].id]

\* The value None of _STATIC_SYSTEM_PROMPT_CACHE.
None == [text |-> "None", tools |-> {}]

\* The value None of _pending_viewport_image; a capture is the number of the
\* capture that produced it.
NoImage == 0

\* A streamed response body that carries tool calls: calls are the calls as
\* the provider means them, by position (index + 1); sent counts the
\* characters of each call's arguments streamed so far, opened holds the
\* positions whose first fragment was streamed, first and last are the
\* positions of the first and of the latest fragment, resumed holds the
\* positions that got a fragment after another call's fragment had followed
\* one of theirs.
NoBody ==
    [calls |-> <<>>, sent |-> <<>>, opened |-> {}, first |-> 0, last |-> 0,
     resumed |-> {}]

\* A queued signal delivery.
Event(w, sig, arg, text, calls) ==
    [w |-> w, sig |-> sig, arg |-> arg, text |-> text, calls |-> calls]

\* --------------------------------------------------------------------- text
\* A text the user types is a sequence of characters; a text the provider
\* streams is a sequence of chunks <<worker, index, characters in it>>.
Whitespace == {" "}
Punctuation == {"?", "!"}

\* str.lower on the letters of the model's alphabet.
lower_char(c) ==
    CASE c = "A" -> "a"
      [] c = "Z" -> "z"
      [] OTHER -> c

lower(text) == [k \in 1..Len(text) |-> lower_char(text[k])]

\* str.strip
RECURSIVE strip(_)
strip(text) ==
    IF text = <<>> THEN text
    ELSE IF Head(text) \in Whitespace THEN strip(Tail(text))
    ELSE IF text[Len(text)] \in Whitespace THEN strip(SubSeq(text, 1, Len(text) - 1))
    ELSE text

\* re.sub(r'[^\w\u4e00-\u9fff]+', '', text): what is neither a word character
\* nor a CJK ideograph is dropped.
RECURSIVE strip_re_sub(_)
strip_re_sub(text) ==
    IF text = <<>> THEN text
    ELSE IF Head(text) \in Whitespace \cup Punctuation THEN strip_re_sub(Tail(text))
    ELSE <<Head(text)>> \o strip_re_sub(Tail(text))

normalize_query(query) == strip_re_sub(lower(strip(query)))

\* len() of a streamed text.
RECURSIVE TextLen(_)
TextLen(text) == IF text = <<>> THEN 0 ELSE Head(text)[3] + TextLen(Tail(text))

\* --------------------------------------------------------- response_cache
\* CACHE_TTL, in seconds.
CACHE_TTL == 7 * 24 * 3600

\* _query_hash: sixteen hexadecimal digits of an MD5 digest, which two
\* normalized texts may share. Here the digest keeps the first character and
\* the length of the text, so that the model has such pairs.
_query_hash(normalized) == <<normalized[1], Len(normalized)>>

\* _evict_expired
_evict_expired(cache, t) ==
    LET keep == {k \in DOMAIN cache : ~(t - cache[k].timestamp > CACHE_TTL)}
    IN  [k \in keep |-> cache[k]]

\* sorted(cache.keys(), key=last_access): the position of key k. The sort is
\* stable and a dict iterates in insertion order (field seq of an entry).
LruRank(cache, k) ==
    Cardinality({j \in DOMAIN cache :
        \/ cache[j].last_access < cache[k].last_access
        \/ /\ cache[j].last_access = cache[k].last_access
           /\ cache[j].seq < cache[k].seq})

\* A faulty variant of _evict_lru: the entries used last are removed.
_evict_lru_newest(cache) ==
    IF Cardinality(DOMAIN cache) <= MAX_CACHE_SIZE THEN cache
    ELSE LET keep == {k \in DOMAIN cache : LruRank(cache, k) < MAX_CACHE_SIZE}
         IN  [k \in keep |-> cache[k]]

\* _evict_lru
_evict_lru(cache) ==
    IF Cardinality(DOMAIN cache) <= MAX_CACHE_SIZE THEN cache
    ELSE LET to_remove == Cardinality(DOMAIN cache) - MAX_CACHE_SIZE
             keep == {k \in DOMAIN cache : LruRank(cache, k) >= to_remove}
         IN  [k \in keep |-> cache[k]]

\* The insertion position a key gets in the dict: kept when the key exists.
NextSeq(cache) ==
    IF DOMAIN cache = {} THEN 1
    ELSE 1 + (CHOOSE n \in {cache[k].seq : k \in DOMAIN cache} :
                 \A k \in DOMAIN cache : cache[k].seq <= n)

\* store(query, response) at time t: the cache afterwards.
store(cache, t, query, response) ==
    LET normalized == normalize_query(query) IN
    IF normalized = <<>> THEN cache
    ELSE IF response = <<>> \/ TextLen(response) < MinResponseLen THEN cache
    ELSE LET key == _query_hash(normalized)
             entry == [normalized |-> normalized, query |-> strip(query),
                       response |-> response, timestamp |-> t,
                       last_access |-> t, hit_count |-> 0,
                       seq |-> IF key \in DOMAIN cache THEN cache[key].seq
                               ELSE NextSeq(cache)]
             cache1 == [k \in DOMAIN cache \cup {key} |->
                           IF k = key THEN entry ELSE cache[k]]
         IN  _evict_lru(_evict_expired(cache1, t))

\* -------------------------------------------------------- history_manager
\* A record of the log. session_id and timestamp are left out: nothing that
\* is modelled reads them.
HistoryRecord(user_input, assistant_reply, tools_used, is_shortcut) ==
    [user_input |-> user_input, assistant_reply |-> assistant_reply,
     tools_used |-> tools_used, is_shortcut |-> is_shortcut]

\* HistoryManager.append
HistoryAppend(records, record) ==
    LET all == Append(records, record) IN
    IF Len(all) > MAX_MEMORY_RECORDS
    THEN SubSeq(all, Len(all) - MAX_MEMORY_RECORDS + 1, Len(all))
    ELSE all

\* difflib.SequenceMatcher.find_longest_match on a[alo..ahi-1], b[blo..bhi-1]
\* (no junk): the longest block, of those the one that starts earliest in a,
\* of those the one that starts earliest in b. <<alo, blo, 0>> when none matches.
MatchingBlocksAt(a, b, alo, ahi, blo, bhi) ==
    {blk \in (alo..(ahi - 1)) \X (blo..(bhi - 1)) \X (1..(ahi - alo)) :
        /\ blk[1] + blk[3] <= ahi
        /\ blk[2] + blk[3] <= bhi
        /\ \A d \in 0..(blk[3] - 1) : a[blk[1] + d] = b[blk[2] + d]}

LongestIn(blocks) ==
    CHOOSE x \in blocks : \A y \in blocks :
        \/ x[3] > y[3]
        \/ x[3] = y[3] /\ x[1] < y[1]
        \/ x[3] = y[3] /\ x[1] = y[1] /\ x[2] <= y[2]

find_longest_match(a, b, alo, ahi, blo, bhi) ==
    LongestIn(MatchingBlocksAt(a, b, alo, ahi, blo, bhi) \cup {<<alo, blo, 0>>})

\* get_matching_blocks: the total size of the blocks found by splitting
\* around the longest match m, left and right of it.
RECURSIVE MatchedSize(_, _, _, _, _, _)
RECURSIVE MatchedAround(_, _, _, _, _, _, _)
MatchedAround(a, b, alo, ahi, blo, bhi, m) ==
    IF m[3] = 0 THEN 0
    ELSE m[3]
         + (IF alo < m[1] /\ blo < m[2]
            THEN MatchedSize(a, b, alo, m[1], blo, m[2]) ELSE 0)
         + (IF m[1] + m[3] < ahi /\ m[2] + m[3] < bhi
            THEN MatchedSize(a, b, m[1] + m[3], ahi, m[2] + m[3], bhi) ELSE 0)

MatchedSize(a, b, alo, ahi, blo, bhi) ==
    MatchedAround(a, b, alo, ahi, blo, bhi,
                  find_longest_match(a, b, alo, ahi, blo, bhi))

\* SequenceMatcher(None, a, b).ratio() = 2.0 * matches / (len(a) + len(b)),
\* as the pair <<numerator, denominator>>.
ratio(a, b) == <<2 * MatchedSize(a, b, 1, Len(a) + 1, 1, Len(b) + 1), Len(a) + Len(b)>>

\* x > y for two ratios.
RatioGreater(x, y) == x[1] * y[2] > y[1] * x[2]

\* The length pre-filter: len(normalized) / len(past) in 0.3 .. 3.0.
LengthsComparable(normalized, past) ==
    /\ past # <<>>
    /\ ~(10 * Len(normalized) < 3 * Len(past))
    /\ ~(Len(normalized) > 3 * Len(past))

\* The records find_similar_qa scores: no tools, no shortcut, a non-empty
\* normalized input that passes the length pre-filter.
Scored(records, normalized) ==
    {k \in 1..Len(records) :
        /\ records[k].tools_used = <<>>
        /\ ~records[k].is_shortcut
        /\ LengthsComparable(normalized, normalize_query(records[k].user_input))}

\* The score of each of them.
Scores(records, normalized) ==
    [k \in Scored(records, normalized) |->
        ratio(normalized, normalize_query(records[k].user_input))]

\* A faulty variant of ReplyIfAbove: the best record's reply whatever its score.
ReplyAnyScore(records, scores, best) == records[best].assistant_reply

\* `if best_score >= SIMILARITY_THRESHOLD and best_reply`
ReplyIfAbove(records, scores, best) ==
    IF 100 * scores[best][1] >= SIMILARITY_THRESHOLD * scores[best][2]
    THEN records[best].assistant_reply
    ELSE <<>>

\* The loop runs from the latest record back and replaces the best one only
\* by a strictly higher score; a score of 0 never replaces the initial one.
BestIn(scores, positive) ==
    CHOOSE k \in positive : \A j \in positive :
        \/ RatioGreater(scores[k], scores[j])
        \/ ~RatioGreater(scores[j], scores[k]) /\ j <= k

BestReply(records, scores, positive) ==
    IF positive = {} THEN <<>>
    ELSE ReplyIfAbove(records, scores, BestIn(scores, positive))

SimilarReply(records, scores) ==
    BestReply(records, scores, {k \in DOMAIN scores : scores[k][1] > 0})

SimilarFor(records, query, normalized) ==
    IF query = <<>> \/ normalized = <<>> THEN <<>>
    ELSE SimilarReply(records, Scores(records, normalized))

\* HistoryManager.find_similar_qa: the reply, <<>> for None.
find_similar_qa(records, query) == SimilarFor(records, query, normalize_query(query))

\* ------------------------------------------------- response_cache.lookup
\* lookup(query) at time t: [cache |-> the cache afterwards, ret |-> the text
\* returned, <<>> for None].
lookup(cache, records, t, query) ==
    LET normalized == normalize_query(query)
        key == _query_hash(normalized)
    IN  IF normalized = <<>> THEN [cache |-> cache, ret |-> <<>>]
        ELSE IF key \in DOMAIN cache /\ t - cache[key].timestamp > CACHE_TTL
        THEN [cache |-> [k \in DOMAIN cache \ {key} |-> cache[k]],
              ret |-> find_similar_qa(records, query)]
        ELSE IF key \in DOMAIN cache /\ cache[key].normalized = normalized
        THEN [cache |-> [cache EXCEPT ![key].last_access = t,
                                      ![key].hit_count = @ + 1],
              ret |-> cache[key].response]
        ELSE [cache |-> cache, ret |-> find_similar_qa(records, query)]

\* ----------------------------------------------------------- prompt_builder
\* Positions are 1-based here: Python's conversation[k] is conversation[k + 1].
\* round_starts: the positions of the user messages.
RoundStarts(conversation) ==
    {i \in 1..Len(conversation) : conversation[i].role = "user"}

\* round_starts[-max_rounds]
LastRoundStart(round_starts, max_rounds) ==
    CHOOSE i \in round_starts :
        Cardinality({j \in round_starts : j >= i}) = max_rounds

\* while idx > 0 and conv[idx].get("role") == "tool": idx -= 1
RECURSIVE SkipBackOverTools(_, _)
SkipBackOverTools(conv, idx) ==
    IF idx > 1 /\ conv[idx].role = "tool"
    THEN SkipBackOverTools(conv, idx - 1)
    ELSE idx

From(conv, idx) == SubSeq(conv, idx, Len(conv))

_truncate_sliding_window(conversation, max_rounds) ==
    IF conversation = <<>> THEN <<>>
    ELSE IF Cardinality(RoundStarts(conversation)) <= max_rounds THEN conversation
    ELSE From(conversation,
              SkipBackOverTools(conversation,
                                LastRoundStart(RoundStarts(conversation), max_rounds)))

\* build_messages, lines 243-248: the hard ceiling on the message count.
Ceiling(conv, max_history) ==
    IF Len(conv) > max_history
    THEN From(conv, SkipBackOverTools(conv, Len(conv) - max_history + 1))
    ELSE conv

\* _build_static_system_prompt: the fixed text, then the names and the
\* schemas of the tools the registry holds.
_build_static_system_prompt(tools) == [text |-> "static", tools |-> tools]

\* get_static_system_prompt(): what it returns, which is also what it leaves
\* in _STATIC_SYSTEM_PROMPT_CACHE.
get_static_system_prompt(cached, tools) ==
    IF cached = None THEN _build_static_system_prompt(tools) ELSE cached

\* _get_pending_viewport_image, line 313: the first import of
\* tools/vision_tool.py runs its @tool decorator, which registers
\* capture_viewport; later imports find the module loaded.
ImportVisionTool(tools) == tools \cup {"capture_viewport"}

\* build_messages, lines 240-248: the history slice that follows messages[0].
\* The dynamic context prepended to a closing user message changes that
\* message's content, not its role or its place.
HistorySlice(conversation, max_history, max_rounds) ==
    Ceiling(_truncate_sliding_window(conversation, max_rounds), max_history)

\* A faulty variant of AugmentedIndex: the first user message is augmented.
AugmentedIndexFirst(history) ==
    IF \E k \in 1..Len(history) : history[k].role = "user"
    THEN CHOOSE k \in 1..Len(history) :
            /\ history[k].role = "user"
            /\ \A j \in 1..(k - 1) : history[j].role # "user"
    ELSE 0

\* build_messages, lines 261-302: the loop augments the message at position
\* i only `if msg.get("role") == "user" and i == len(conv) - 1`. The position
\* in the slice of the message that gets the context block (and the pending
\* image), 0 if none does.
AugmentedIndex(history) ==
    IF history # <<>> /\ history[Len(history)].role = "user"
    THEN Len(history) ELSE 0

\* build_messages, on the part of the state it reads and writes: the static
\* prompt is fetched (and cached) first, the import follows. hist.built is
\* the call and its result, hist.builds what every call so far was given and
\* what static content it returned.
build_messages(w, max_history, max_rounds) ==
    LET system == get_static_system_prompt(w.prompt, w.tools)
        history == HistorySlice(w.chat.conversation, max_history, max_rounds)
        augmented == AugmentedIndex(history)
        pending_image == w.image
    IN  [w EXCEPT !.prompt = system,
                  !.tools = ImportVisionTool(@),
                  !.image = NoImage,
                  !.hist.attached = IF augmented # 0 /\ pending_image # NoImage
                                    THEN Append(@, pending_image) ELSE @,
                  !.hist.lost = IF augmented = 0 /\ pending_image # NoImage
                                THEN @ \cup {pending_image} ELSE @,
                  !.hist.built = [conversation |-> w.chat.conversation,
                                  max_history |-> max_history,
                                  max_rounds |-> max_rounds,
                                  system |-> system, history |-> history,
                                  context_at |-> augmented,
                                  image |-> IF augmented # 0 THEN pending_image
                                            ELSE NoImage],
                  !.hist.builds = @ \cup {[conversation |-> w.chat.conversation,
                                           tools |-> w.tools, system |-> system]}]

\* ------------------------------------------------------------------ worker
\* The fields of an LLMWorker and the position of its run(). History fields:
\* round (the round counter when it was created), emits (signals emitted),
\* terminals and ended (how many terminal notifications, and the last one's
\* kind), error (which error was emitted), cancelled_in_run (the flag's value
\* when run() returned), requests (calls of urlopen that returned or raised),
\* last_code (what the latest urlopen yielded), all_429 (every urlopen so far
\* yielded HTTP 429), waits (the arguments of time.sleep, in tenths of a
\* second). resp is the response body where a specification fixes it in
\* advance; elsewhere the body is chosen line by line. system and messages are
\* the content of messages[0] and the history slice of the request's message
\* list, context_at the position in the slice of the message that carries the
\* context block (0 if none), tools the names of the schemas sent with it.
NewWorker(choice, round, built, tools) ==
    [pc |-> "start", system |-> built.system, messages |-> built.history,
     context_at |-> built.context_at, tools |-> tools, resp |-> NoBody, attempt |-> 0, stream_options |-> TRUE,
     last_error |-> FALSE, cancelled |-> FALSE, tool_choice |-> choice,
     content_chunks |-> <<>>, tool_calls_accum |-> <<>>, usage |-> FALSE,
     round |-> round, emits |-> 0,
     terminals |-> 0, ended |-> "", error |-> "", cancelled_in_run |-> FALSE,
     requests |-> 0, last_code |-> 200, all_429 |-> TRUE, waits |-> <<>>,
     url_errors |-> 0]

\* ------------------------------------------------------------------- state
\* ChatWidget.__init__
ChatInit ==
    [conversation |-> <<>>, worker |-> 0, busy |-> FALSE,
     tool_round |-> 0, expected_tool_ids |-> <<>>,
     pending_tool_results |-> {},
     streaming_active |-> FALSE, streaming_content |-> <<>>,
     last_used_tools |-> FALSE, display |-> <<>>,
     last_user_query |-> <<>>, tools_used_names |-> <<>>]

\* turn_requests  LLM requests started since the last submission
\* invoked        call ids whose registered callable was invoked
\* accepted       call ids of batches the user accepted in the dialog
\* auto_ok        call ids of batches that arrived with the flag set
\* batches        the id sets handed to the executor; last_batch the latest
\* results        every execution_finished emission, in order
\* stopped        the last stop found tools still waiting and no submission
\*                followed it
\* errored        workers whose error_occurred was delivered to _on_error
\* turn_query     the text of the latest submission that went to the LLM
\* turn_tools     a tool-call batch arrived since that submission
\* direct         the tools execute_shortcut invoked, in order
\* seen           the normalized forms of the queries stored and of the inputs
\*                logged so far
\* built          the latest call of build_messages and what it returned
\* builds         for every call of build_messages so far: the conversation
\*                and the registry's names at the call, the static content
\*                returned
\* parsed         the latest payload handed to _on_tool_calls was parsed
\* captures       how many captures capture_viewport_tool has stored
\* attached       the captures build_messages attached to a message, in order
\* lost           the captures that were cleared or overwritten unattached
\* opened, closed how often an undo chunk was opened and closed
\* raised         call ids whose callable raised an exception
NotBuilt ==
    [conversation |-> <<>>, max_history |-> 0, max_rounds |-> 0,
     system |-> None, history |-> <<>>, context_at |-> 0, image |-> NoImage]

HistInit ==
    [turn_requests |-> 0, invoked |-> {},
     accepted |-> {}, auto_ok |-> {}, batches |-> {},
     last_batch |-> {}, results |-> <<>>, stopped |-> FALSE,
     errored |-> {},
     turn_query |-> <<>>, turn_tools |-> FALSE, direct |-> <<>>, seen |-> {},
     built |-> NotBuilt, builds |-> {}, parsed |-> TRUE,
     captures |-> 0, attached |-> <<>>, lost |-> {}, opened |-> 0, closed |-> 0,
     raised |-> {}]

\* An empty dict.
EmptyCache == <<>>

NoCall == [op |-> "none", query |-> <<>>, response |-> <<>>, ret |-> <<>>]

Init0 ==
    /\ chat = ChatInit
    /\ workers = <<>>
    /\ queue = <<>>
    /\ deferred = <<>>
    /\ dialogs = <<>>
    /\ auto_approve = FALSE
    /\ hist = HistInit
    /\ memory_cache = EmptyCache
    /\ _records = <<>>
    /\ now = 0
    /\ last_call = NoCall
    /\ _tools = RegisteredTools
    /\ _STATIC_SYSTEM_PROMPT_CACHE = None
    /\ _pending_viewport_image = NoImage
    /\ undo_depth = 0

Init ==
    /\ Init0
    /\ left = [workers |-> MaxWorkers, events |-> MaxEvents, http |-> 0]

InitCore ==
    /\ Init0
    /\ left = [workers |-> CoreWorkers, events |-> CoreEvents, http |-> 0]

InitLoop ==
    /\ Init0
    /\ left = [workers |-> LoopWorkers, events |-> LoopEvents, http |-> 0]

\* The part of the state the main-thread handlers below transform.
\* cache and records are the two module-level stores; now is read only.
World ==
    [chat |-> chat, workers |-> workers, deferred |-> deferred, hist |-> hist,
     cache |-> memory_cache, records |-> _records, now |-> now,
     tools |-> _tools, prompt |-> _STATIC_SYSTEM_PROMPT_CACHE,
     image |-> _pending_viewport_image, undo |-> undo_depth]

Commit(w) ==
    \E after \in {w} :
       /\ chat' = after.chat
       /\ workers' = after.workers
       /\ deferred' = after.deferred
       /\ hist' = after.hist
       /\ memory_cache' = after.cache
       /\ _records' = after.records
       /\ _tools' = after.tools
       /\ _STATIC_SYSTEM_PROMPT_CACHE' = after.prompt
       /\ _pending_viewport_image' = after.image
       /\ undo_depth' = after.undo

Range(s) == {s[i] : i \in 1..Len(s)}

\* ------------------------------------------------- ChatWidget: LLM requests
\* _build_messages
_build_messages(w) == build_messages(w, MaxHistory, MaxRounds)

\* _start_llm_request: a fresh LLMWorker replaces the reference in _worker.
StartLLMRequest(w, force_text_only) ==
    LET w1 == _build_messages(w) IN
    [w1 EXCEPT !.chat.streaming_content = <<>>,
               !.chat.streaming_active = FALSE,
               !.chat.busy = TRUE,
               !.chat.worker = Len(w.workers) + 1,
               !.workers = Append(@, NewWorker(IF force_text_only THEN "none" ELSE "auto",
                                               w.chat.tool_round,
                                               w1.hist.built, w1.tools)),
               !.hist.turn_requests = @ + 1]

CapReached(round) == round >= MAX_TOOL_ROUNDS

\* A faulty variant of ForceText: text-only is forced one round too late.
ForceTextAtCap(round) == round >= MAX_TOOL_ROUNDS

ForceText(round) == round >= MAX_TOOL_ROUNDS - 1

\* A faulty variant of _on_all_tools_done: the tool messages are appended in
\* the order in which the results were reported.
OnAllToolsDoneAsReported(w) ==
    LET exp == w.chat.expected_tool_ids
        reported == SelectSeq(w.hist.results, LAMBDA r : r.id \in Range(exp))
        latest == SubSeq(reported, Len(reported) - Len(exp) + 1, Len(reported))
        msgs == [i \in 1..Len(latest) |-> ToolMsg(latest[i].id, latest[i].success)]
        w1 == [w EXCEPT !.chat.conversation = @ \o msgs,
                        !.chat.pending_tool_results = {},
                        !.chat.expected_tool_ids = <<>>,
                        !.chat.tool_round = @ + 1]
    IN  IF CapReached(w1.chat.tool_round)
        THEN [w1 EXCEPT !.chat.display = Append(@, "cap"), !.chat.busy = FALSE]
        ELSE StartLLMRequest(w1, ForceText(w1.chat.tool_round))

\* _on_all_tools_done
OnAllToolsDone(w) ==
    LET exp == w.chat.expected_tool_ids
        res(id) == (CHOOSE r \in w.chat.pending_tool_results : r.id = id).success
        msgs == [i \in 1..Len(exp) |-> ToolMsg(exp[i], res(exp[i]))]
        w1 == [w EXCEPT !.chat.conversation = @ \o msgs,
                        !.chat.pending_tool_results = {},
                        !.chat.expected_tool_ids = <<>>,
                        !.chat.tool_round = @ + 1]
    IN  IF CapReached(w1.chat.tool_round)
        THEN [w1 EXCEPT !.chat.display = Append(@, "cap"), !.chat.busy = FALSE]
        ELSE StartLLMRequest(w1, ForceText(w1.chat.tool_round))

\* all(tid in self._pending_tool_results for tid in self._expected_tool_ids)
AllCollected(expected, pending) ==
    \A i \in 1..Len(expected) : \E r \in pending : r.id = expected[i]

\* _on_tool_executed, the slot of ActionExecutor.execution_finished (direct call)
OnToolExecuted(w, call_id, ok) ==
    LET w1 == [w EXCEPT !.chat.pending_tool_results =
                            {r \in @ : r.id # call_id} \cup {[id |-> call_id, success |-> ok]},
                        !.hist.results = Append(@, [id |-> call_id, success |-> ok])]
    IN  IF AllCollected(w1.chat.expected_tool_ids, w1.chat.pending_tool_results)
        THEN OnAllToolsDone(w1)
        ELSE w1

\* ------------------------------------------------------------ ActionExecutor
has_tool(tools, name) == name \in tools

\* -------------------------------------------------------- command_shortcut
\* re.fullmatch of `word1\s*word2` on a lowered text (re.IGNORECASE).
TwoWords(text, word1, word2) ==
    /\ Len(text) >= Len(word1) + Len(word2)
    /\ SubSeq(text, 1, Len(word1)) = word1
    /\ SubSeq(text, Len(text) - Len(word2) + 1, Len(text)) = word2
    /\ \A k \in (Len(word1) + 1)..(Len(text) - Len(word2)) : text[k] \in Whitespace

\* _SHORTCUT_TABLE, in order: the rows of zero_out_transforms and of
\* delete_objects, each with the alternatives that the model's alphabet can
\* spell (`zero\s*out`, `delete`).
_SHORTCUT_TABLE ==
    <<[tool_name |-> "zero_out_transforms", alternative |-> "zero_out"],
      [tool_name |-> "delete_objects", alternative |-> "delete"]>>

PatternMatch(row, text) ==
    CASE row.alternative = "zero_out" ->
            TwoWords(lower(text), <<"z", "e", "r", "o">>, <<"o", "u", "t">>)
      [] row.alternative = "delete" ->
            lower(text) = <<"d", "e", "l", "e", "t", "e">>

\* A faulty variant of try_shortcut: the registry is not asked.
try_shortcut_unregistered(tools, user_input) ==
    LET text == strip(user_input)
        hits == {k \in 1..Len(_SHORTCUT_TABLE) : PatternMatch(_SHORTCUT_TABLE[k], text)}
    IN  IF text = <<>> \/ Len(text) > MaxShortcutLen \/ text[Len(text)] = "?"
           \/ hits = {}
        THEN [matched |-> FALSE, tool_name |-> "", matched_input |-> <<>>]
        ELSE [matched |-> TRUE,
              tool_name |-> _SHORTCUT_TABLE[CHOOSE k \in hits : \A j \in hits : k <= j].tool_name,
              matched_input |-> text]

\* try_shortcut: the first row that matches and whose tool is registered.
\* kwargs are left out: the rows modelled build none.
try_shortcut(tools, user_input) ==
    LET text == strip(user_input)
        hits == {k \in 1..Len(_SHORTCUT_TABLE) :
                    /\ PatternMatch(_SHORTCUT_TABLE[k], text)
                    /\ has_tool(tools, _SHORTCUT_TABLE[k].tool_name)}
    IN  IF text = <<>> \/ Len(text) > MaxShortcutLen \/ text[Len(text)] = "?"
           \/ hits = {}
        THEN [matched |-> FALSE, tool_name |-> "", matched_input |-> <<>>]
        ELSE [matched |-> TRUE,
              tool_name |-> _SHORTCUT_TABLE[CHOOSE k \in hits : \A j \in hits : k <= j].tool_name,
              matched_input |-> text]

\* A faulty variant of execute_tool_calls: the `continue` after the answer
\* for an unknown tool is missing, so the call is scheduled as well.
RECURSIVE ExecuteToolCallsNoContinue(_, _)
ExecuteToolCallsNoContinue(w, calls) ==
    IF calls = <<>> THEN w
    ELSE LET tc == Head(calls)
             w1 == IF ~has_tool(w.tools, tc.name)
                   THEN OnToolExecuted(w, tc.id, FALSE)
                   ELSE w
         IN  ExecuteToolCallsNoContinue([w1 EXCEPT !.deferred = Append(@, tc)],
                                        Tail(calls))

\* A faulty variant of execute_tool_calls: the callable of a registered tool
\* is invoked at once, inside the slot, instead of being handed to
\* executeDeferred.
RECURSIVE ExecuteToolCallsDirectly(_, _)
ExecuteToolCallsDirectly(w, calls) ==
    IF calls = <<>> THEN w
    ELSE LET tc == Head(calls)
             w1 == IF ~has_tool(w.tools, tc.name)
                   THEN OnToolExecuted(w, tc.id, FALSE)
                   ELSE OnToolExecuted([w EXCEPT !.hist.invoked = @ \cup {tc.id}],
                                       tc.id, TRUE)
         IN  ExecuteToolCallsDirectly(w1, Tail(calls))

\* execute_tool_calls: an unknown tool is answered at once, a registered one is
\* handed to executeDeferred.
RECURSIVE ExecuteToolCalls(_, _)
ExecuteToolCalls(w, calls) ==
    IF calls = <<>> THEN w
    ELSE LET tc == Head(calls)
             w1 == IF ~has_tool(w.tools, tc.name)
                   THEN OnToolExecuted(w, tc.id, FALSE)
                   ELSE [w EXCEPT !.deferred = Append(@, tc)]
         IN  ExecuteToolCalls(w1, Tail(calls))

\* The success field of the result _execute_single reports for an outcome of
\* the callable: a non-dict return value is wrapped as a success, an exception
\* becomes a failure.
ResultSuccess(outcome) == outcome \in {"dict_ok", "non_dict"}

\* cmds.undoInfo(openChunk=True, chunkName=...)
OpenChunk(w) == [w EXCEPT !.undo = @ + 1, !.hist.opened = @ + 1]

\* cmds.undoInfo(closeChunk=True)
CloseChunk(w) == [w EXCEPT !.undo = @ - 1, !.hist.closed = @ + 1]

\* capture_viewport_tool: a successful capture is stored in
\* _pending_viewport_image, over whatever is stored there; a failed capture
\* or an exception leaves it.
StoreCapture(w, outcome) ==
    IF outcome = "dict_ok"
    THEN [w EXCEPT !.image = w.hist.captures + 1,
                   !.hist.captures = @ + 1,
                   !.hist.lost = IF w.image # NoImage THEN @ \cup {w.image} ELSE @]
    ELSE w

\* func(**args): the registered callable runs.
Invoke(w, tc, outcome) ==
    LET w1 == [w EXCEPT !.hist.invoked = @ \cup {tc.id},
                        !.hist.raised = IF outcome = "raise" THEN @ \cup {tc.id}
                                        ELSE @]
    IN  IF tc.name = "capture_viewport" THEN StoreCapture(w1, outcome) ELSE w1

\* A faulty variant of Guarded: the chunk is closed only if the callable
\* returned.
GuardedNoFinally(w, tc, outcome) ==
    LET w1 == Invoke(OpenChunk(w), tc, outcome)
    IN  IF outcome = "raise" THEN w1 ELSE CloseChunk(w1)

\* _execute_single, lines 96-108: open the chunk, try the callable, close the
\* chunk in the finally clause.
Guarded(w, tc, outcome) == CloseChunk(Invoke(OpenChunk(w), tc, outcome))

\* _execute_single, run from the idle queue.
ExecuteSingle(w, tc, outcome) ==
    IF ~has_tool(w.tools, tc.name)
    THEN OnToolExecuted(w, tc.id, FALSE)
    ELSE OnToolExecuted(Guarded(w, tc, outcome), tc.id, ResultSuccess(outcome))

\* ----------------------------------------------------------- ConfirmDialog
\* A faulty variant of is_auto_approved: every batch counts as approved.
is_auto_approved_always == TRUE

is_auto_approved == auto_approve

\* ------------------------------------------------- ChatWidget: tool batches
\* _on_tool_calls, lines 901-905: what runs once the batch may be executed.
Dispatch(w, calls) ==
    LET ids == CallIds(calls)
        w1 == [w EXCEPT !.chat.expected_tool_ids = ids,
                        !.chat.pending_tool_results = {},
                        !.hist.batches = @ \cup {Range(ids)},
                        !.hist.last_batch = Range(ids)]
    IN  ExecuteToolCalls(w1, calls)

\* json.dumps(payload) in _handle_stream and _handle_non_stream: the text
\* that travels with tool_calls_received. complete tells whether the text
\* ends with the closing brace that json.dumps wrote.
payload_dumps(content, tool_calls) ==
    [content |-> content, tool_calls |-> tool_calls, complete |-> TRUE]

\* The same text cut short: no JSON document.
CutShort(payload_json) == [payload_json EXCEPT !.complete = FALSE]

\* json.loads(payload_json) with payload.get("tool_calls", []) and
\* payload.get("content", ""): ok is FALSE where json.loads raises
\* JSONDecodeError.
payload_loads(payload_json) ==
    IF payload_json.complete
    THEN [ok |-> TRUE, content |-> payload_json.content,
          tool_calls |-> payload_json.tool_calls]
    ELSE [ok |-> FALSE, content |-> NoText, tool_calls |-> <<>>]

\* A faulty variant of PayloadError: the round is counted all the same.
PayloadErrorAdvancing(w) ==
    [w EXCEPT !.chat.last_used_tools = TRUE,
              !.chat.display = Append(@, "error"),
              !.chat.tool_round = @ + 1]

\* _on_tool_calls, lines 839-847: the payload did not parse.
PayloadError(w) ==
    [w EXCEPT !.chat.last_used_tools = TRUE,
              !.chat.display = Append(@, "error")]

\* _on_tool_calls, lines 839-881: up to the confirmation.
RECURSIVE AddNames(_, _)
AddNames(names, calls) ==
    IF calls = <<>> THEN names
    ELSE AddNames(IF Head(calls).name \in Range(names) THEN names
                  ELSE Append(names, Head(calls).name), Tail(calls))

ReceiveToolCalls(w, text, calls) ==
    [w EXCEPT !.chat.last_used_tools = TRUE,
              !.chat.tools_used_names = AddNames(@, calls),
              !.hist.turn_tools = TRUE,
              !.chat.conversation = Append(@, AssistantToolMsg(text, calls)),
              !.hist.auto_ok = IF auto_approve THEN @ \cup Range(CallIds(calls)) ELSE @]

\* _on_tool_calls, lines 887-899: the user rejected the dialog.
\* A faulty variant of the denial loop: only the first call is answered.
DeniedMessagesFirstOnly(calls) == <<ToolMsg(calls[1].id, FALSE)>>

DeniedMessages(calls) == [i \in 1..Len(calls) |-> ToolMsg(calls[i].id, FALSE)]

Deny(w, calls) ==
    [w EXCEPT !.chat.display = Append(@, "denied"),
              !.chat.conversation = @ \o DeniedMessages(calls),
              !.chat.busy = FALSE]

\* ------------------------------------------------ ChatWidget: other slots
OnResponseChunk(w, chunk_text) ==
    IF ~w.chat.streaming_active
    THEN [w EXCEPT !.chat.streaming_active = TRUE,
                   !.chat.streaming_content = chunk_text]
    ELSE [w EXCEPT !.chat.streaming_content = @ \o chunk_text]

OnResponse(w, text) ==
    IF text # NoText
    THEN LET user_q == w.chat.last_user_query IN
         [w EXCEPT !.chat.streaming_active = FALSE,
                   !.chat.streaming_content = <<>>,
                   !.chat.conversation = Append(@, AssistantMsg(text)),
                   !.cache = IF ~w.chat.last_used_tools /\ user_q # <<>>
                             THEN store(@, w.now, user_q, text) ELSE @,
                   !.records = HistoryAppend(@,
                       HistoryRecord(user_q, text, w.chat.tools_used_names, FALSE)),
                   !.hist.seen = @ \cup {normalize_query(user_q)},
                   !.chat.last_user_query = <<>>,
                   !.chat.tools_used_names = <<>>]
    ELSE w

OnError(w, i) ==
    [w EXCEPT !.chat.display = Append(@, "error"),
              !.hist.errored = @ \cup {i}]

\* A faulty variant of _on_worker_done: only the reference is cleared.
OnWorkerDoneKeepsBusy(w) ==
    [w EXCEPT !.chat.worker = 0]

OnWorkerDone(w) ==
    [w EXCEPT !.chat.busy = IF w.chat.expected_tool_ids = <<>> THEN FALSE ELSE @,
              !.chat.worker = 0]

OnStop(w) ==
    LET c == w.chat
        w1 == IF c.worker # 0
              THEN [w EXCEPT !.workers[c.worker].cancelled = TRUE]
              ELSE w
        w2 == IF c.streaming_active /\ c.streaming_content # <<>>
              THEN [w1 EXCEPT !.chat.conversation = Append(@, AssistantMsg(c.streaming_content)),
                              !.chat.streaming_active = FALSE,
                              !.chat.streaming_content = <<>>]
              ELSE w1
    IN  [w2 EXCEPT !.chat.expected_tool_ids = <<>>,
                   !.chat.pending_tool_results = {},
                   !.chat.busy = FALSE,
                   !.chat.display = Append(@, "stopped"),
                   !.hist.stopped = (w.deferred # <<>>)]

OnClear(w) ==
    [w EXCEPT !.chat.conversation = <<>>,
              !.chat.display = <<>>,
              !.chat.tool_round = 0,
              !.chat.pending_tool_results = {},
              !.chat.expected_tool_ids = <<>>,
              !.chat.last_used_tools = FALSE,
              !.chat.last_user_query = <<>>,
              !.chat.tools_used_names = <<>>,
              !.chat.streaming_active = FALSE,
              !.chat.streaming_content = <<>>,
              !.prompt = None]

\* The reply _execute_shortcut composes from the tool's message.
ShortcutReply == <<<<0, 0, MinResponseLen>>>>

\* _execute_shortcut: the part that runs inside _on_send.
ExecuteShortcut(w, shortcut_info) ==
    [w EXCEPT !.chat.display = Append(@, "shortcut"),
              !.deferred = Append(@, [id |-> 0, name |-> shortcut_info.tool_name,
                                      arguments |-> shortcut_info.matched_input])]

\* _execute_shortcut._do, run from the idle queue, with execute_shortcut:
\* the callable is invoked if the registry has it, and whatever it does
\* becomes a result dict.
RunShortcut(w, job) ==
    LET w0 == OpenChunk(w)
        w1 == CloseChunk(IF has_tool(w0.tools, job.name)
                         THEN [w0 EXCEPT !.hist.direct = Append(@, job.name)] ELSE w0)
    IN  [w1 EXCEPT !.chat.display = Append(@, "shortcut_result"),
                   !.chat.conversation = Append(@, AssistantMsg(ShortcutReply)),
                   !.records = HistoryAppend(@,
                       HistoryRecord(job.arguments, ShortcutReply, <<job.name>>, TRUE)),
                   !.hist.seen = @ \cup {normalize_query(job.arguments)}]

\* A faulty variant of the cache-hit branch: the reply is shown and the
\* request is sent all the same.
ReplyFromCacheAndAsk(w, text, cached) ==
    StartLLMRequest(
        [w EXCEPT !.chat.display = Append(@, "cached"),
                  !.chat.conversation = Append(@, AssistantMsg(cached)),
                  !.records = HistoryAppend(@, HistoryRecord(text, cached, <<>>, FALSE)),
                  !.hist.seen = @ \cup {normalize_query(text)}], FALSE)

\* _on_send, lines 644-656: the reply found in the cache is shown and logged.
ReplyFromCache(w, text, cached) ==
    [w EXCEPT !.chat.display = Append(@, "cached"),
              !.chat.conversation = Append(@, AssistantMsg(cached)),
              !.records = HistoryAppend(@, HistoryRecord(text, cached, <<>>, FALSE)),
              !.hist.seen = @ \cup {normalize_query(text)}]

\* _on_send with a non-empty stripped text. An API key is configured.
OnSend(w, text) ==
    LET w1 == [w EXCEPT !.chat.conversation = Append(@, UserMsg(text)),
                        !.hist.turn_requests = 0,
                        !.hist.stopped = FALSE]
        shortcut == try_shortcut(w.tools, text)
        found == lookup(w.cache, w.records, w.now, text)
        w2 == [w1 EXCEPT !.cache = found.cache]
    IN  IF shortcut.matched THEN ExecuteShortcut(w1, shortcut)
        ELSE IF found.ret # <<>> THEN ReplyFromCache(w2, text, found.ret)
        ELSE StartLLMRequest([w2 EXCEPT !.chat.last_user_query = text,
                                        !.chat.last_used_tools = FALSE,
                                        !.chat.tools_used_names = <<>>,
                                        !.chat.tool_round = 0,
                                        !.hist.turn_query = text,
                                        !.hist.turn_tools = FALSE], FALSE)

\* ------------------------------------------------------- LLMWorker (thread)
CallId(i, k) == i * 10 + k

StatusEvent(i, what) == Event(i, "status", what, NoText, <<>>)

ErrorEvent(i, what) == Event(i, "error", what, NoText, <<>>)

\* The slots _on_status and _on_usage only set labels; the state below holds no
\* label, so their deliveries are not queued. They are notifications all the
\* same: emits counts every emit of the worker, these included.
Queued(evs) == SelectSeq(evs, LAMBDA e : e.sig \notin {"status", "usage"})

\* A worker whose run() has returned; the fields run() used are dead.
Returned(wk) ==
    [wk EXCEPT !.pc = "done", !.attempt = 0, !.stream_options = TRUE,
               !.last_error = FALSE, !.content_chunks = <<>>,
               !.tool_calls_accum = <<>>, !.usage = FALSE]

\* The terminal notifications among emitted signals: response_finished,
\* tool_calls_received, error_occurred.
Terminals(evs) == SelectSeq(evs, LAMBDA e : e.sig \in {"response", "tool_calls", "error"})

\* run(), the finally clause and the end of the thread: status "idle" is
\* emitted on every path, then QThread emits finished.
Finally(wk, i, evs) ==
    [wk |-> [Returned(wk) EXCEPT !.emits = @ + Len(evs) + 1,
                                 !.terminals = @ + Len(Terminals(evs)),
                                 !.ended = IF Terminals(evs) = <<>> THEN @
                                           ELSE Terminals(evs)[Len(Terminals(evs))].sig,
                                 !.error = IF Terminals(evs) = <<>> THEN @
                                           ELSE Terminals(evs)[Len(Terminals(evs))].arg,
                                 !.cancelled_in_run = wk.cancelled],
     ev |-> evs \o <<StatusEvent(i, "idle"), Event(i, "finished", "", NoText, <<>>)>>]

\* A faulty variant of LoopTop: nothing is reported when the range is used up.
LoopTopSilent(wk, i, evs) ==
    IF wk.attempt >= _MAX_RETRIES \/ wk.cancelled
    THEN Finally(wk, i, evs)
    ELSE [wk |-> [wk EXCEPT !.pc = "urlopen", !.emits = @ + Len(evs)], ev |-> evs]

\* run(), the head of one iteration of `for attempt in range(_MAX_RETRIES)`,
\* and what follows the loop when the range is used up.
LoopTop(wk, i, evs) ==
    IF wk.attempt >= _MAX_RETRIES
    THEN IF wk.last_error
         THEN Finally(wk, i, Append(evs, ErrorEvent(i, "retried")))
         ELSE Finally(wk, i, evs)
    ELSE IF wk.cancelled
         THEN Finally(wk, i, evs)
         ELSE [wk |-> [wk EXCEPT !.pc = "urlopen", !.emits = @ + Len(evs)], ev |-> evs]

Retryable(code) == code \in _RETRYABLE_HTTP_CODES

\* A faulty variant of the backoff: the same delay before every retry.
WaitFlat(attempt) == _RETRY_BACKOFF_BASE

\* wait = _RETRY_BACKOFF_BASE * (2 ** attempt)
Wait(attempt) == _RETRY_BACKOFF_BASE * 2 ^ attempt

\* A faulty variant of AttemptRemains: a failure is always retried.
AttemptAlwaysRemains(attempt) == TRUE

\* attempt < _MAX_RETRIES - 1, the test of both except clauses
AttemptRemains(attempt) == attempt < _MAX_RETRIES - 1

\* run(), what one urlopen outcome leads to.
AfterUrlopen(wk0, i, code) ==
    LET wk == [wk0 EXCEPT !.requests = @ + 1, !.last_code = code,
                          !.all_429 = @ /\ code = 429,
                          !.url_errors = IF code = 0 THEN @ + 1 ELSE @] IN
    IF code = 200
    THEN IF wk.cancelled THEN Finally(wk, i, <<>>)
         ELSE [wk |-> [wk EXCEPT !.pc = "stream"], ev |-> <<>>]
    ELSE IF code = 400 /\ wk.stream_options
    THEN LoopTop([wk EXCEPT !.stream_options = FALSE, !.attempt = @ + 1], i, <<>>)
    ELSE IF (code = 0 \/ Retryable(code)) /\ AttemptRemains(wk.attempt)
    THEN [wk |-> [wk EXCEPT !.pc = "sleep", !.emits = @ + 1,
                            !.waits = Append(@, Wait(wk.attempt))],
          ev |-> <<StatusEvent(i, "retry")>>]
    ELSE Finally(wk, i, <<ErrorEvent(i, IF code = 0 THEN "network" ELSE "http")>>)

\* A faulty variant of AccumulateDelta: a fragment's arguments replace what
\* was accumulated.
AccumulateDeltaReplacing(accum, tc_delta) ==
    LET idx == tc_delta.index + 1
        old == IF idx \in DOMAIN accum THEN accum[idx]
               ELSE [id |-> tc_delta.id, name |-> <<>>, arguments |-> <<>>]
        entry == [id |-> IF tc_delta.id # 0 THEN tc_delta.id ELSE old.id,
                  name |-> old.name \o tc_delta.name,
                  arguments |-> tc_delta.arguments]
    IN  [k \in DOMAIN accum \cup {idx} |-> IF k = idx THEN entry ELSE accum[k]]

\* _handle_stream, lines 246-264: one element of delta["tool_calls"].
\* tool_calls_accum is keyed by position, the fragment's index + 1; the id 0
\* and the name <<>> stand for a missing or empty field.
AccumulateDelta(accum, tc_delta) ==
    LET idx == tc_delta.index + 1
        old == IF idx \in DOMAIN accum THEN accum[idx]
               ELSE [id |-> tc_delta.id, name |-> <<>>, arguments |-> <<>>]
        entry == [id |-> IF tc_delta.id # 0 THEN tc_delta.id ELSE old.id,
                  name |-> old.name \o tc_delta.name,
                  arguments |-> old.arguments \o tc_delta.arguments]
    IN  [k \in DOMAIN accum \cup {idx} |-> IF k = idx THEN entry ELSE accum[k]]

\* [tool_calls_accum[i] for i in sorted(tool_calls_accum.keys())]
SortedCalls(accum) ==
    LET nth(k) == CHOOSE i \in DOMAIN accum :
                      Cardinality({j \in DOMAIN accum : j < i}) = k - 1
    IN  [k \in 1..Cardinality(DOMAIN accum) |-> accum[nth(k)]]

\* _handle_stream, lines 266-287: usage, then the one final notification.
Assemble(wk, i) ==
    LET text == wk.content_chunks
        usage == IF wk.usage THEN <<Event(i, "usage", "", NoText, <<>>)>> ELSE <<>>
        final == IF DOMAIN wk.tool_calls_accum # {}
                 THEN Event(i, "tool_calls", "", text, SortedCalls(wk.tool_calls_accum))
                 ELSE Event(i, "response", "", text, <<>>)
    IN  Finally(wk, i, Append(usage, final))

Put(i, r) ==
    /\ workers' = [workers EXCEPT ![i] = r.wk]
    /\ queue' = queue \o Queued(r.ev)

Spend(n) ==
    /\ left.events >= n
    /\ left' = [left EXCEPT !.events = @ - n]

WStart(i) ==
    /\ workers[i].pc = "start"
    /\ Put(i, LoopTop(workers[i], i, <<StatusEvent(i, "thinking")>>))
    /\ UNCHANGED <<chat, deferred, dialogs, auto_approve, hist, left, services>>

WRespond(i) ==
    /\ workers[i].pc = "urlopen"
    /\ \E code \in HttpOutcomes :
          /\ IF code # 200 /\ left.http > 0
             THEN left' = [left EXCEPT !.http = @ - 1]
             ELSE Spend(IF code = 200 THEN 0 ELSE 1)
          /\ Put(i, AfterUrlopen(workers[i], i, code))
    /\ UNCHANGED <<chat, deferred, dialogs, auto_approve, hist, services>>

\* time.sleep(wait) returns; last_error = e; continue
WWake(i) ==
    /\ workers[i].pc = "sleep"
    /\ Put(i, LoopTop([workers[i] EXCEPT !.attempt = @ + 1, !.last_error = TRUE], i, <<>>))
    /\ UNCHANGED <<chat, deferred, dialogs, auto_approve, hist, left, services>>

\* _handle_stream: a line is read and the flag is found set (lines 199-200).
WCancelledLine(i) ==
    /\ workers[i].pc = "stream"
    /\ workers[i].cancelled
    /\ Put(i, Finally(workers[i], i, <<>>))
    /\ UNCHANGED <<chat, deferred, dialogs, auto_approve, hist, left, services>>

\* _handle_stream: a `data:` line is read with the flag clear and is used.
WContent(i) ==
    LET wk == workers[i] IN
    /\ wk.pc = "stream"
    /\ ~wk.cancelled
    /\ Len(wk.content_chunks) < MaxChunks
    /\ \E n \in ChunkLens :
          /\ Spend((IF wk.tool_calls_accum # <<>> THEN 1 ELSE 0)
                   + (IF n < MinResponseLen THEN 1 ELSE 0))
          /\ LET chunk == <<<<i, Len(wk.content_chunks) + 1, n>>>> IN
             Put(i, [wk |-> [wk EXCEPT !.content_chunks = @ \o chunk, !.emits = @ + 1],
                     ev |-> <<Event(i, "chunk", "", chunk, <<>>)>>])
    /\ UNCHANGED <<chat, deferred, dialogs, auto_approve, hist, services>>

WToolCallDelta(i) ==
    LET wk == workers[i] IN
    /\ wk.pc = "stream"
    /\ ~wk.cancelled
    /\ Len(wk.tool_calls_accum) < MaxBatch
    /\ \E name \in ToolNames, args \in ArgStrings :
          LET call == [id |-> CallId(i, Len(wk.tool_calls_accum) + 1),
                       name |-> name, arguments |-> args]
              plain == /\ wk.tool_calls_accum = <<>>
                       /\ wk.content_chunks = <<>>
                       /\ name \in RegisteredTools
                       /\ args = "json"
                       /\ wk.tool_choice = "auto"
          IN  /\ Spend(IF plain THEN 0 ELSE 1)
              /\ Put(i, [wk |-> [wk EXCEPT !.tool_calls_accum = Append(@, call)],
                         ev |-> <<>>])
    /\ UNCHANGED <<chat, deferred, dialogs, auto_approve, hist, services>>

WUsage(i) ==
    LET wk == workers[i] IN
    /\ wk.pc = "stream"
    /\ ~wk.cancelled
    /\ ~wk.usage
    /\ Spend(1)
    /\ Put(i, [wk |-> [wk EXCEPT !.usage = TRUE], ev |-> <<>>])
    /\ UNCHANGED <<chat, deferred, dialogs, auto_approve, hist, services>>

\* The `data: [DONE]` line with the flag clear: break, then lines 266-287.
WDone(i) ==
    LET wk == workers[i] IN
    /\ wk.pc = "stream"
    /\ ~wk.cancelled
    /\ Put(i, Assemble(wk, i))
    /\ UNCHANGED <<chat, deferred, dialogs, auto_approve, hist, left, services>>

\* The body ends without [DONE]: the for loop ends, the flag is not tested.
WEndOfBody(i) ==
    LET wk == workers[i] IN
    /\ wk.pc = "stream"
    /\ Spend(1)
    /\ Put(i, Assemble(wk, i))
    /\ UNCHANGED <<chat, deferred, dialogs, auto_approve, hist, services>>

\* Reading the body raises (timeout, reset): `except Exception` in run().
WBodyError(i) ==
    LET wk == workers[i] IN
    /\ wk.pc = "stream"
    /\ Spend(1)
    /\ Put(i, Finally(wk, i, <<ErrorEvent(i, "unknown")>>))
    /\ UNCHANGED <<chat, deferred, dialogs, auto_approve, hist, services>>

\* ------------------------------------------------------ main-thread steps
\* What the user types: a question, a phrase of the shortcut row of a
\* registered tool, a phrase of the row of an unregistered one.
Question == <<"h", "o", "w", "?">>
Queries ==
    {Question,
     <<"Z", "e", "r", "o", " ", "o", "u", "t">>,
     <<"d", "e", "l", "e", "t", "e">>}

WithinBudget(w) == Len(w.workers) <= left.workers

\* The user submits text: possible while the input is enabled (_set_busy) and
\* no modal dialog blocks the window.
UserSend ==
    /\ ~chat.busy
    /\ dialogs = <<>>
    /\ \E text \in Queries :
          /\ Spend(IF workers = <<>> /\ text = Question THEN 0 ELSE 1)
          /\ LET w == OnSend(World, strip(text)) IN WithinBudget(w) /\ Commit(w)
    /\ UNCHANGED <<queue, dialogs, auto_approve, now, last_call>>

\* The stop button is visible exactly while busy.
UserStop ==
    /\ chat.busy
    /\ dialogs = <<>>
    /\ Spend(1)
    /\ Commit(OnStop(World))
    /\ UNCHANGED <<queue, dialogs, auto_approve, now, last_call>>

\* A faulty variant of _on_clear: reset_auto_approve() is not called.
UserClearKeepsFlag ==
    /\ dialogs = <<>>
    /\ Spend(1)
    /\ Commit(OnClear(World))
    /\ UNCHANGED <<queue, dialogs, auto_approve, now, last_call>>

\* The clear button is always enabled; _on_clear ends with reset_auto_approve().
UserClear ==
    /\ dialogs = <<>>
    /\ Spend(1)
    /\ Commit(OnClear(World))
    /\ auto_approve' = FALSE
    /\ UNCHANGED <<queue, dialogs, now, last_call>>

\* _on_tool_calls(payload_json), the slot of tool_calls_received: the flag is
\* set first; a payload that does not parse is reported and nothing else is
\* done; otherwise the batch is recorded and either dispatched (the flag
\* approve-all is set) or put before the user.
OnToolCalls(payload_json) ==
    LET payload == payload_loads(payload_json)
        w0 == [World EXCEPT !.hist.parsed = payload.ok]
    IN  IF ~payload.ok
        THEN Commit(PayloadError(w0)) /\ UNCHANGED dialogs
        ELSE LET w1 == ReceiveToolCalls(w0, payload.content, payload.tool_calls) IN
             IF is_auto_approved
             THEN LET w2 == Dispatch(w1, payload.tool_calls)
                  IN  WithinBudget(w2) /\ Commit(w2) /\ UNCHANGED dialogs
             ELSE Commit(w1) /\ dialogs' = Append(dialogs, payload.tool_calls)

\* The event loop (the outer one or a dialog's) delivers the oldest queued signal.
Deliver ==
    /\ queue # <<>>
    /\ queue' = Tail(queue)
    /\ LET ev == Head(queue) IN
       CASE ev.sig = "chunk" ->
              Commit(OnResponseChunk(World, ev.text)) /\ UNCHANGED dialogs
         [] ev.sig = "response" ->
              Commit(OnResponse(World, ev.text)) /\ UNCHANGED dialogs
         [] ev.sig = "error" ->
              Commit(OnError(World, ev.w)) /\ UNCHANGED dialogs
         [] ev.sig = "finished" ->
              Commit(OnWorkerDone(World)) /\ UNCHANGED dialogs
         [] ev.sig = "tool_calls" ->
              OnToolCalls(payload_dumps(ev.text, ev.calls))
    /\ UNCHANGED <<auto_approve, left, now, last_call>>

\* The user answers the innermost open dialog (_on_approve / reject).
DialogAnswer ==
    /\ dialogs # <<>>
    /\ dialogs' = SubSeq(dialogs, 1, Len(dialogs) - 1)
    /\ LET calls == dialogs[Len(dialogs)] IN
       \E answer \in {"approve", "approve_all", "reject"} :
          /\ auto_approve' = IF answer = "approve_all" THEN TRUE ELSE auto_approve
          /\ LET w0 == [World EXCEPT !.hist.accepted =
                                 IF answer = "reject" THEN @
                                 ELSE @ \cup Range(CallIds(calls))]
                 w == IF answer = "reject" THEN Deny(w0, calls)
                      ELSE Dispatch(w0, calls)
             IN  WithinBudget(w) /\ Commit(w)
    /\ UNCHANGED <<queue, left, now, last_call>>

\* The idle queue runs the oldest executeDeferred callback (_do_execute).
RunDeferred ==
    /\ deferred # <<>>
    /\ IF Head(deferred).id = 0
       THEN /\ Commit(RunShortcut([World EXCEPT !.deferred = Tail(@)], Head(deferred)))
            /\ UNCHANGED left
       ELSE \E outcome \in ToolOutcomes :
               /\ Spend(IF outcome = "dict_ok" THEN 0 ELSE 1)
               /\ \E w \in {ExecuteSingle([World EXCEPT !.deferred = Tail(@)],
                                            Head(deferred), outcome)} :
                     WithinBudget(w) /\ Commit(w)
    /\ UNCHANGED <<queue, dialogs, auto_approve, now, last_call>>

WorkerStep(i) ==
    \/ WStart(i)
    \/ WRespond(i)
    \/ WWake(i)
    \/ WCancelledLine(i)
    \/ WContent(i)
    \/ WToolCallDelta(i)
    \/ WUsage(i)
    \/ WDone(i)
    \/ WEndOfBody(i)
    \/ WBodyError(i)

Next ==
    \/ UserSend
    \/ UserStop
    \/ UserClear
    \/ Deliver
    \/ DialogAnswer
    \/ RunDeferred
    \/ \E i \in 1..Len(workers) : WorkerStep(i)

Spec == Init /\ [][Next]_vars

SpecCore == InitCore /\ [][Next]_vars

SpecLoop == InitLoop /\ [][Next]_vars

InitRetry ==
    /\ Init0
    /\ left = [workers |-> RetryWorkers, events |-> RetryEvents, http |-> RetryFailures]

SpecRetry == InitRetry /\ [][Next]_vars

\* ------------------------------------------------------- deep in one turn
World0 ==
    [chat |-> ChatInit, workers |-> <<>>, deferred |-> <<>>, hist |-> HistInit,
     cache |-> EmptyCache, records |-> <<>>, now |-> 0,
     tools |-> RegisteredTools, prompt |-> None, image |-> NoImage, undo |-> 0]

PlainCall(i) == [id |-> CallId(i, 1), name |-> "zero_out_transforms", arguments |-> "json"]

\* One regular round, as the handlers above perform it: the request of the
\* latest worker is answered by one call of a registered tool, the worker
\* finishes while the dialog is open, the user approves, the tool succeeds.
RoundDone(w) ==
    LET i == Len(w.workers)
        calls == <<PlainCall(i)>>
        w1 == OnWorkerDone(ReceiveToolCalls(w, NoText, calls))
        w2 == Dispatch([w1 EXCEPT !.hist.accepted = @ \cup Range(CallIds(calls))], calls)
        w3 == ExecuteSingle([w2 EXCEPT !.deferred = Tail(@)], Head(w2.deferred), "dict_ok")
    IN  [w3 EXCEPT !.workers[i] = [Returned(@) EXCEPT !.emits = 3, !.terminals = 1,
                                                      !.ended = "tool_calls",
                                                      !.requests = 1,
                                                      !.all_429 = FALSE]]

RECURSIVE AfterRounds(_)
AfterRounds(n) ==
    IF n = 0 THEN OnSend(World0, Question)
    ELSE CHOOSE w \in {RoundDone(v) : v \in {AfterRounds(n - 1)}} : TRUE

\* The state after a submission and CapRounds regular rounds. SpecLoop reaches
\* it from Init: TLC finds ~AtCapStart violated under SpecLoop.
AtCapStart ==
    /\ World = AfterRounds(CapRounds)
    /\ queue = <<>>
    /\ dialogs = <<>>
    /\ auto_approve = FALSE

InitCap ==
    /\ auto_approve = FALSE
    /\ queue = <<>>
    /\ dialogs = <<>>
    /\ \E w \in {AfterRounds(CapRounds)} :
          /\ chat = w.chat
          /\ workers = w.workers
          /\ deferred = w.deferred
          /\ hist = w.hist
          /\ memory_cache = w.cache
          /\ _records = w.records
          /\ now = w.now
          /\ _tools = w.tools
          /\ _STATIC_SYSTEM_PROMPT_CACHE = w.prompt
          /\ _pending_viewport_image = w.image
          /\ undo_depth = w.undo
    /\ last_call = NoCall
    /\ left = [workers |-> CapWorkers, events |-> CapEvents, http |-> 0]

SpecCap == InitCap /\ [][Next]_vars

\* ===================================================================== claims
Conv == chat.conversation

Running(i) == workers[i].pc # "done"

\* Nothing is in flight: no worker runs, no signal or callback is queued, no
\* dialog is open and the input is enabled.
Quiescent ==
    /\ ~chat.busy
    /\ dialogs = <<>>
    /\ queue = <<>>
    /\ deferred = <<>>
    /\ \A i \in 1..Len(workers) : ~Running(i)

\* The index of the first user message after position k (or one past the end).
NextUserAfter(conv, k) ==
    LET later == {j \in (k + 1)..Len(conv) : conv[j].role = "user"}
    IN  IF later = {} THEN Len(conv) + 1
        ELSE CHOOSE j \in later : \A j2 \in later : j <= j2

\* Every assistant message with tool_calls is answered, before the next user
\* message, by exactly one tool message per call id.
ToolCallsAnswered(conv) ==
    \A k \in 1..Len(conv) :
        \A c \in 1..Len(conv[k].tool_calls) :
            Cardinality({j \in (k + 1)..(NextUserAfter(conv, k) - 1) :
                            /\ conv[j].role = "tool"
                            /\ conv[j].tool_call_id = conv[k].tool_calls[c].id}) = 1

\* C1: whenever the controller is idle, every assistant message with
\* tool_calls has exactly one tool message per call id before the next user
\* message.
C1_IdleConversationAnswered == Quiescent => ToolCallsAnswered(Conv)

\* --------------------------------------------------------------- C2
\* The ids of every execution result reported so far.
ResultIds(h) == {h.results[j].id : j \in 1..Len(h.results)}

ToolMsgIds(conv) ==
    {conv[j].tool_call_id : j \in {k \in 1..Len(conv) : conv[k].role = "tool"}}

\* Every call id handed to the executor so far.
Dispatched == UNION hist.batches

\* C2: in a step that appends a tool message of a dispatched batch, or that
\* continues with the next LLM request after the latest batch, every call id
\* of that batch has a reported result (a failure result counts).
C2_NoPartialContinuation ==
    [][\A b \in hist'.batches :
          (\/ \E id \in b : id \in ToolMsgIds(Conv') \ ToolMsgIds(Conv)
           \/ /\ b = hist'.last_batch
              /\ chat'.tool_round = chat.tool_round + 1
              /\ Len(workers') > Len(workers))
          => b \subseteq ResultIds(hist')]_vars

\* --------------------------------------------------------------- C3
\* The calls of the LLM that wait in the idle queue (a shortcut's callback
\* carries no call id).
WaitingCalls == {deferred[j].id : j \in 1..Len(deferred)} \ {0}

\* C3: a call requested by the LLM is handed to the executor, waits in the
\* idle queue or has its callable invoked only if the user accepted the dialog
\* of its batch or the auto-approve flag was set when the batch arrived.
C3_ConfirmationGating ==
    (hist.invoked \cup Dispatched \cup WaitingCalls)
        \subseteq (hist.accepted \cup hist.auto_ok)

\* A tool ran after the user accepted its batch, and another ran for a batch
\* that arrived with the flag set and was never shown in a dialog.
C3_Witness ==
    /\ hist.invoked \cap hist.accepted # {}
    /\ (hist.invoked \cap hist.auto_ok) \ hist.accepted # {}

\* --------------------------------------------------------------- C4
\* How often a call id is accounted for: once per reported result and once
\* per callback still waiting in the idle queue.
Occurrences(id) ==
    Cardinality({j \in 1..Len(hist.results) : hist.results[j].id = id})
        + Cardinality({j \in 1..Len(deferred) : deferred[j].id = id})

\* C4: every call id handed to the executor either still waits in the idle
\* queue with no result, or has left it with exactly one result; no result is
\* reported for a call that was never handed over.
C4_OneResultPerCall ==
    /\ \A id \in Dispatched : Occurrences(id) = 1
    /\ ResultIds(hist) \subseteq Dispatched

\* The calls of every assistant message of the conversation.
ConvCalls == UNION {Range(Conv[k].tool_calls) : k \in 1..Len(Conv)}

\* A batch is fully reported that holds a call of an unknown tool, a call
\* with malformed arguments, or a call of a registered tool that failed.
C4_Witness ==
    /\ deferred = <<>>
    /\ \E c \in ConvCalls :
          /\ c.id \in Dispatched
          /\ \/ c.name \notin RegisteredTools
             \/ c.arguments = "malformed"
             \/ [id |-> c.id, success |-> FALSE] \in Range(hist.results)

\* --------------------------------------------------------------- C5
\* The innermost dialog closes and its batch is not accepted.
DenialStep ==
    /\ Len(dialogs') < Len(dialogs)
    /\ hist'.accepted = hist.accepted

\* C5: the step in which a dialog is rejected appends one failure tool
\* message per call of the batch, in order, hands nothing to the executor,
\* invokes no tool, leaves the round counter alone, creates no worker and
\* ends not busy.
C5_Denial ==
    [][DenialStep =>
          LET calls == dialogs[Len(dialogs)] IN
          /\ Conv' = Conv \o [k \in 1..Len(calls) |-> ToolMsg(calls[k].id, FALSE)]
          /\ hist'.invoked = hist.invoked
          /\ hist'.batches = hist.batches
          /\ deferred' = deferred
          /\ chat'.tool_round = chat.tool_round
          /\ workers' = workers
          /\ ~chat'.busy]_vars

\* A batch was rejected: its failure message ends the conversation, none of
\* its calls was handed over, and the controller is not busy.
C5_Witness ==
    /\ Conv # <<>>
    /\ Conv[Len(Conv)].role = "tool"
    /\ ~Conv[Len(Conv)].success
    /\ Conv[Len(Conv)].tool_call_id \notin Dispatched
    /\ ~chat.busy
    /\ dialogs = <<>>

\* --------------------------------------------------------------- C6
\* Some dispatched batch gets its last missing result in this step.
CycleCompletes ==
    \E b \in hist'.batches :
        /\ b \subseteq ResultIds(hist')
        /\ ~(b \in hist.batches /\ b \subseteq ResultIds(hist))

\* C6: the round counter stays within 0..MAX_TOOL_ROUNDS, and it changes only
\* by a reset to 0 or by an increment of one in a step that completes a batch.
C6_RoundCounter ==
    /\ [](chat.tool_round \in 0..MAX_TOOL_ROUNDS)
    /\ [][chat'.tool_round # chat.tool_round =>
             \/ chat'.tool_round = 0
             \/ /\ chat'.tool_round = chat.tool_round + 1
                /\ CycleCompletes]_vars

\* --------------------------------------------------------------- C7
\* C7: a turn never makes more than MAX_TOOL_ROUNDS LLM requests, and the step
\* in which the round counter reaches the cap shows the termination notice,
\* creates no worker and ends not busy.
C7_CapEndsTurn ==
    /\ [](hist.turn_requests <= MAX_TOOL_ROUNDS)
    /\ [][(chat.tool_round < MAX_TOOL_ROUNDS /\ chat'.tool_round >= MAX_TOOL_ROUNDS) =>
             /\ chat'.display = Append(chat.display, "cap")
             /\ workers' = workers
             /\ ~chat'.busy]_vars

\* --------------------------------------------------------------- C8
\* C8: a request carries tool_choice "none" exactly if the round counter was
\* MAX_TOOL_ROUNDS - 1 when it was issued, and "auto" otherwise.
C8_ToolChoice ==
    \A i \in 1..Len(workers) :
        /\ workers[i].tool_choice \in {"none", "auto"}
        /\ workers[i].tool_choice = "none" <=> workers[i].round = MAX_TOOL_ROUNDS - 1

\* The first request of the turn went out with "auto", a later one on the
\* final permitted round with "none".
C8_Witness ==
    /\ workers # <<>>
    /\ workers[1].round = 0
    /\ workers[1].tool_choice = "auto"
    /\ \E i \in 1..Len(workers) :
          workers[i].round = MAX_TOOL_ROUNDS - 1 /\ workers[i].tool_choice = "none"

\* --------------------------------------------------------------- C9
\* _on_stop runs while streamed text is on display.
StopWhileStreaming ==
    /\ chat.streaming_active
    /\ chat.streaming_content # <<>>
    /\ chat'.display = Append(chat.display, "stopped")

\* The worker whose chunks are on display (a chunk is tagged with its worker).
Streamer == chat.streaming_content[1][1]

\* C9: a stop while text is streaming appends exactly the streamed text as one
\* assistant message, clears the expectation state, ends not busy, and leaves
\* the request that was streaming cancelled unless it has already returned.
C9_StopWhileStreaming ==
    [][StopWhileStreaming =>
          /\ Conv' = Append(Conv, AssistantMsg(chat.streaming_content))
          /\ chat'.expected_tool_ids = <<>>
          /\ chat'.pending_tool_results = {}
          /\ ~chat'.busy
          /\ Running(Streamer) => workers'[Streamer].cancelled]_vars

\* --------------------------------------------------------------- C10
\* C10: a worker whose flag is set emits nothing more and opens no further
\* connection.
C10_SilentAfterCancel ==
    [][\A i \in 1..Len(workers) :
          workers[i].cancelled =>
              /\ workers'[i].emits = workers[i].emits
              /\ workers'[i].pc = "urlopen" => workers[i].pc = "urlopen"]_vars

\* --------------------------------------------------------------- C11
\* C11: after a stop that found approved tools still waiting to run, no LLM
\* request is started until the user submits again.
C11_StopCancelsContinuation ==
    [][(hist.stopped /\ hist'.stopped) => Len(workers') = Len(workers)]_vars

\* --------------------------------------------------------------- C12
\* The message holds text streamed by worker i (a chunk is tagged with its worker).
TextOf(msg, i) == \E k \in 1..Len(msg.content) : msg.content[k][1] = i

\* C12: the delivery of an error shows it and leaves the conversation alone,
\* and from then on no step appends an assistant message holding text of the
\* request that failed.
C12_ErrorAppendsNothing ==
    /\ [][(queue # <<>> /\ queue' = Tail(queue) /\ Head(queue).sig = "error") =>
             /\ chat'.display = Append(chat.display, "error")
             /\ Conv' = Conv]_vars
    /\ [][\A i \in hist.errored : \A k \in (Len(Conv) + 1)..Len(Conv') :
             Conv'[k].role = "assistant" => ~TextOf(Conv'[k], i)]_vars

\* --------------------------------------------------------------- C13
\* C13: a run emits no terminal notification (response, tool-call batch,
\* error) before it returns, and a run that returned without the flag set
\* emitted exactly one.
C13_OneTerminal ==
    \A i \in 1..Len(workers) :
        /\ Running(i) => workers[i].terminals = 0
        /\ (~Running(i) /\ ~workers[i].cancelled_in_run) => workers[i].terminals = 1

\* An uncancelled run returned with a tool-call batch after two failed
\* attempts.
C13_Witness ==
    \E i \in 1..Len(workers) :
        /\ ~Running(i)
        /\ ~workers[i].cancelled_in_run
        /\ workers[i].requests = _MAX_RETRIES
        /\ workers[i].ended = "tool_calls"

\* --------------------------------------------------------------- C14
\* Uncancelled runs that returned after HTTP 429 on every attempt.
Always429 ==
    {i \in 1..Len(workers) :
        /\ ~Running(i)
        /\ ~workers[i].cancelled_in_run
        /\ workers[i].requests > 0
        /\ workers[i].all_429}

Increasing(seq) == \A k \in 1..(Len(seq) - 1) : seq[k] < seq[k + 1]

\* C14, as claimed: such a run made _MAX_RETRIES attempts with increasing
\* delays between them and ended with the "retried N times" error.
C14_RetriedError ==
    \A i \in Always429 :
        /\ workers[i].requests = _MAX_RETRIES
        /\ Len(workers[i].waits) = _MAX_RETRIES - 1
        /\ Increasing(workers[i].waits)
        /\ workers[i].error = "retried"

\* C14, amended: such a run made _MAX_RETRIES attempts with increasing delays
\* between them and ended with the HTTP error of the last answer as its one
\* terminal notification.
C14_HttpErrorAfterRetries ==
    \A i \in Always429 :
        /\ workers[i].requests = _MAX_RETRIES
        /\ Len(workers[i].waits) = _MAX_RETRIES - 1
        /\ Increasing(workers[i].waits)
        /\ workers[i].terminals = 1
        /\ workers[i].ended = "error"
        /\ workers[i].error = "http"

C14_Witness == Always429 # {}

\* --------------------------------------------------------------- C15
\* urlopen of worker i raises HTTPError in this step.
HttpFailure(i) ==
    /\ workers'[i].requests = workers[i].requests + 1
    /\ workers'[i].last_code \notin {200, 0}

\* The failure is the rejection of the include-usage hint (stream_options).
HintCase(i) == workers'[i].last_code = 400 /\ workers[i].stream_options

\* C15: an HTTP failure other than the hint case leads to a delayed retry
\* exactly if its status is 429 or 5xx and an attempt remains; otherwise the
\* run returns at once with one error and without a delay.
C15_RetryableCodes ==
    [][\A i \in 1..Len(workers) :
          (HttpFailure(i) /\ ~HintCase(i)) =>
              LET code == workers'[i].last_code
                  retried == workers'[i].pc = "sleep"
              IN  /\ retried <=> /\ code = 429 \/ code \in 500..599
                                 /\ workers[i].attempt < _MAX_RETRIES - 1
                  /\ ~retried => /\ workers'[i].pc = "done"
                                 /\ workers'[i].terminals = 1
                                 /\ workers'[i].ended = "error"
                                 /\ workers'[i].waits = workers[i].waits]_vars

\* ---------------------------------------------------------------------- C16
\* _on_response handles a response_received signal that carries text.
ResponseDelivered ==
    /\ queue # <<>>
    /\ queue' = Tail(queue)
    /\ Head(queue).sig = "response"
    /\ Head(queue).text # NoText

\* store() keeps a pair only if the query has a normalized form and the
\* response is not trivially short (section 4.5 of the specification).
Eligible(query, text) ==
    /\ normalize_query(query) # <<>>
    /\ TextLen(text) >= MinResponseLen

\* After the step the cache holds text as the response to query.
StoredNext(query, text) ==
    LET normalized == normalize_query(query) IN
    /\ normalized # <<>>
    /\ _query_hash(normalized) \in DOMAIN memory_cache'
    /\ memory_cache'[_query_hash(normalized)].normalized = normalized
    /\ memory_cache'[_query_hash(normalized)].response = text

\* The worker's finished signal is handled after its text-only response.
FinishedAfterResponse ==
    /\ queue # <<>>
    /\ queue' = Tail(queue)
    /\ Head(queue).sig = "finished"
    /\ workers[Head(queue).w].ended = "response"

\* C16: when the LLM returns a text-only response, the controller appends it
\* as one assistant message, stores the pair (query of the turn, text) in the
\* cache if and only if no tool-call batch arrived in this turn (and the pair
\* is eligible for storage), persists one history record for the turn, and is
\* idle once the worker's finished signal is handled.
C16_TextOnlyResponse ==
    /\ [][ResponseDelivered =>
            LET text == Head(queue).text IN
            /\ Conv' = Append(Conv, AssistantMsg(text))
            /\ StoredNext(hist.turn_query, text)
                  <=> (~hist.turn_tools /\ Eligible(hist.turn_query, text))
            /\ Len(_records') = Len(_records) + 1
            /\ _records'[Len(_records')].user_input = hist.turn_query
            /\ _records'[Len(_records')].assistant_reply = text
            /\ ~_records'[Len(_records')].is_shortcut]_vars
    /\ [][FinishedAfterResponse => ~chat'.busy]_vars

\* The same for turns the user did not clear while the request was running:
\* _last_user_query still holds the query when the response arrives.
C16_UnclearedTurn ==
    [][(ResponseDelivered /\ chat.last_user_query = hist.turn_query) =>
            LET text == Head(queue).text IN
            /\ Conv' = Append(Conv, AssistantMsg(text))
            /\ StoredNext(hist.turn_query, text)
                  <=> (~hist.turn_tools /\ Eligible(hist.turn_query, text))
            /\ Len(_records') = Len(_records) + 1
            /\ _records'[Len(_records')].user_input = hist.turn_query
            /\ _records'[Len(_records')].assistant_reply = text
            /\ ~_records'[Len(_records')].is_shortcut]_vars

\* ---------------------------------------------------------------------- C17
\* The step is _on_send with this text: it appends the user message.
Submitted(text) ==
    /\ ~chat.busy
    /\ dialogs = <<>>
    /\ Len(Conv') > Len(Conv)
    /\ Conv'[Len(Conv) + 1].role = "user"
    /\ Conv'[Len(Conv) + 1].content = text

\* The user submits a text that try_shortcut matches.
ShortcutSent(text) ==
    /\ Submitted(strip(text))
    /\ try_shortcut(_tools, strip(text)).matched
    /\ Len(Conv') = Len(Conv) + 1

\* The idle queue runs the callback of a shortcut.
ShortcutRuns ==
    /\ deferred # <<>>
    /\ Head(deferred).id = 0
    /\ deferred' = Tail(deferred)

Cached(text) == lookup(memory_cache, _records, now, text).ret

\* The user submits a text that is no shortcut and that lookup finds.
CacheHit(text) ==
    /\ Submitted(strip(text))
    /\ ~try_shortcut(_tools, strip(text)).matched
    /\ Cached(strip(text)) # <<>>

\* C18: on a cache hit the controller shows the cached text as the assistant's
\* reply and is idle again within the same handler: no LLM worker is created,
\* nothing is queued or scheduled, the input stays enabled.
C18_CacheHit ==
    [][\A text \in Queries : CacheHit(text) =>
          /\ Len(Conv') = Len(Conv) + 2
          /\ Conv'[Len(Conv')].role = "assistant"
          /\ Conv'[Len(Conv')].content = Cached(strip(text))
          /\ Conv'[Len(Conv')].tool_calls = <<>>
          /\ chat'.display = Append(chat.display, "cached")
          /\ workers' = workers
          /\ queue' = queue
          /\ deferred' = deferred
          /\ chat'.worker = chat.worker
          /\ ~chat'.busy]_vars

\* A question was answered by the LLM and stored, then asked again and
\* answered from the cache: one worker, two records, the same reply twice.
C18_Witness ==
    /\ Len(workers) = 1
    /\ Len(Conv) = 4
    /\ Conv[4].role = "assistant"
    /\ Conv[2].role = "assistant"
    /\ Conv[4].content = Conv[2].content
    /\ chat.display # <<>>
    /\ chat.display[Len(chat.display)] = "cached"
    /\ Len(_records) = 2
    /\ ~chat.busy

\* ------------------------------------------------- the cache API on its own
\* The queries handed to the API: one without a normalized form, two with
\* the same one, two whose normalized forms share a hash, two whose normalized
\* forms differ and are similar (ratio 0.8).
CacheQueries ==
    {<<"?">>, <<"a">>, <<"A", "?">>, <<"a", "a">>, <<"a", "b">>, <<"a", "b", "b">>}

\* The responses: none, one too short to store, two long enough.
CacheResponses ==
    {<<>>, <<<<0, 1, MinResponseLen - 1>>>>, <<<<0, 1, MinResponseLen>>>>,
     <<<<0, 2, MinResponseLen>>>>}

\* The records appended: a plain Q&A, one with an empty reply, one of a turn
\* that used a tool, one of a shortcut.
CacheRecords ==
    {HistoryRecord(q, <<<<0, 3, MinResponseLen - 1>>>>, <<>>, FALSE) :
        q \in {<<"?">>, <<"a">>, <<"a", "b">>}}
    \cup {HistoryRecord(<<"a", "b">>, <<>>, <<>>, FALSE),
          HistoryRecord(<<"a", "b">>, <<<<0, 4, MinResponseLen>>>>, <<"zero_out_transforms">>, FALSE),
          HistoryRecord(<<"a", "b">>, ShortcutReply, <<"zero_out_transforms">>, TRUE)}

\* The seconds time.time() advanced since the previous call. A call made
\* after a pause counts twice against CacheOps.
Elapsed == {0, CACHE_TTL, CACHE_TTL + 1}

CallFrame ==
    UNCHANGED <<chat, workers, queue, deferred, dialogs, auto_approve,
                _tools, _STATIC_SYSTEM_PROMPT_CACHE, _pending_viewport_image,
                undo_depth>>

\* response_cache.store(query, response)
StoreCall ==
    \E query \in CacheQueries, response \in CacheResponses, dt \in Elapsed :
        /\ Spend(IF dt = 0 THEN 1 ELSE 2)
        /\ now' = now + dt
        /\ memory_cache' = store(memory_cache, now', query, response)
        /\ last_call' = [op |-> "store", query |-> query, response |-> response,
                         ret |-> <<>>]
        /\ hist' = [hist EXCEPT !.seen = @ \cup {normalize_query(query)}]
        /\ UNCHANGED _records
        /\ CallFrame

\* response_cache.lookup(query)
LookupCall ==
    \E query \in CacheQueries \cup {<<>>}, dt \in Elapsed :
        /\ Spend(IF dt = 0 THEN 1 ELSE 2)
        /\ now' = now + dt
        /\ LET found == lookup(memory_cache, _records, now', query) IN
           /\ memory_cache' = found.cache
           /\ last_call' = [op |-> "lookup", query |-> query, response |-> <<>>,
                            ret |-> found.ret]
        /\ UNCHANGED <<_records, hist>>
        /\ CallFrame

\* HistoryManager.append(...)
AppendCall ==
    \E record \in CacheRecords :
        /\ Spend(1)
        /\ _records' = HistoryAppend(_records, record)
        /\ last_call' = [op |-> "append", query |-> record.user_input,
                         response |-> record.assistant_reply, ret |-> <<>>]
        /\ hist' = [hist EXCEPT !.seen = @ \cup {normalize_query(record.user_input)}]
        /\ UNCHANGED <<memory_cache, now>>
        /\ CallFrame

NextCache ==
    \/ StoreCall
    \/ LookupCall
    \/ AppendCall

InitCache ==
    /\ Init0
    /\ left = [workers |-> 0, events |-> CacheOps, http |-> 0]

SpecCache == InitCache /\ [][NextCache]_vars

\* ---------------------------------------------------------------------- C19
\* A store is followed at once by a lookup of the same query, before the
\* entry's TTL has run out.
LookupAfterStore ==
    /\ last_call.op = "store"
    /\ last_call'.op = "lookup"
    /\ last_call'.query = last_call.query
    /\ now' - now <= CACHE_TTL

\* C19 as stated: store(q, r) followed immediately by lookup(q), in the same
\* session and before TTL expiry, returns r.
C19_StoreThenLookup ==
    [][LookupAfterStore => last_call'.ret = last_call.response]_vars

\* C19, amended: the same for a query that has a normalized form and a
\* response of at least MinResponseLen characters.
C19_EligibleStoreThenLookup ==
    [][(LookupAfterStore /\ Eligible(last_call.query, last_call.response))
          => last_call'.ret = last_call.response]_vars

\* A full cache took one more eligible pair, which was then looked up.
C19_Witness ==
    /\ last_call.op = "lookup"
    /\ last_call.ret # <<>>
    /\ Cardinality(DOMAIN memory_cache) = MAX_CACHE_SIZE
    /\ \E k \in DOMAIN memory_cache :
          /\ memory_cache[k].hit_count = 1
          /\ memory_cache[k].response = last_call.ret
          /\ memory_cache[k].seq > MAX_CACHE_SIZE

\* ---------------------------------------------------------------------- C20
\* The step is a call of lookup.
LookupStep ==
    /\ left' # left
    /\ last_call'.op = "lookup"

\* C20 as stated: lookup on a query whose normalized form appeared in no
\* earlier store and in no history record returns a miss.
C20_UnseenQueryMisses ==
    [][(LookupStep /\ normalize_query(last_call'.query) \notin hist.seen)
          => last_call'.ret = <<>>]_vars

\* No cache entry holds the normalized form of the query, and no history
\* record of a tool-free turn that was no shortcut has an input whose
\* normalized form is as similar to it as SIMILARITY_THRESHOLD.
NothingSimilar(query) ==
    LET normalized == normalize_query(query) IN
    \/ normalized = <<>>
    \/ /\ \A k \in DOMAIN memory_cache : memory_cache[k].normalized # normalized
       /\ \A j \in 1..Len(_records) :
             (_records[j].tools_used = <<>> /\ ~_records[j].is_shortcut) =>
                LET past == normalize_query(_records[j].user_input)
                    score == ratio(normalized, past)
                IN  past = <<>> \/ 100 * score[1] < SIMILARITY_THRESHOLD * score[2]

\* C20, amended: lookup returns a miss for a query that nothing in the cache
\* equals and nothing eligible in the history resembles.
C20_DissimilarQueryMisses ==
    [][(LookupStep /\ NothingSimilar(last_call'.query)) => last_call'.ret = <<>>]_vars

\* A lookup missed while the cache held another query and the history a
\* tool-free record that shares characters with it, below the threshold.
C20_Witness ==
    /\ last_call.op = "lookup"
    /\ last_call.ret = <<>>
    /\ normalize_query(last_call.query) # <<>>
    /\ memory_cache # EmptyCache
    /\ \E j \in 1..Len(_records) :
          /\ _records[j].tools_used = <<>>
          /\ ~_records[j].is_shortcut
          /\ _records[j].assistant_reply # <<>>
          /\ normalize_query(_records[j].user_input) # <<>>
          /\ ratio(normalize_query(last_call.query),
                   normalize_query(_records[j].user_input))[1] > 0

\* ---------------------------------------------------------------------- C21
\* The tool message at position k of the slice follows, in the slice, the
\* assistant message whose tool_calls hold its call id.
AnsweredIn(slice, k) ==
    \E j \in 1..(k - 1) :
        /\ slice[j].role = "assistant"
        /\ slice[k].tool_call_id \in Range(CallIds(slice[j].tool_calls))

NoOrphan(slice) ==
    \A k \in 1..Len(slice) : slice[k].role = "tool" => AnsweredIn(slice, k)

\* C21: in every message list the Prompt Builder produced for a request,
\* after the round window and the max_history ceiling, the history slice does
\* not begin with a tool message and every tool message in it is preceded in
\* the slice by the assistant tool_calls message it answers.
C21_NoOrphanedToolMessage ==
    \A i \in 1..Len(workers) : NoOrphan(workers[i].messages)

\* ------------------------------------------- the Prompt Builder on its own
\* build_messages called on conversations that grow the way the controller
\* grows them, with max_history and max_rounds drawn from small sets.
HistoryLimits == {2, MaxHistory}
RoundLimits == {1, MaxRounds}

PromptFrame ==
    UNCHANGED <<workers, queue, deferred, dialogs, auto_approve,
                memory_cache, _records, now, last_call, undo_depth>>

\* The calls of a batch that arrives when the conversation holds n messages.
BatchAt(n, size) ==
    [k \in 1..size |-> [id |-> CallId(n, k), name |-> "zero_out_transforms",
                        arguments |-> "json"]]

\* What the controller appends to the conversation: a submission (_on_send),
\* a reply (_on_response, a cached reply, a shortcut's reply, the partial text
\* at a stop), the assistant message of a batch (_on_tool_calls), the tool
\* messages of the batch that is waiting (_on_all_tools_done, or the denial).
\* A submission or a reply may arrive while a batch is waiting.
PromptAppend ==
    /\ Spend(1)
    /\ \/ /\ chat' = [chat EXCEPT !.conversation = Append(@, UserMsg(Question))]
       \/ /\ chat' = [chat EXCEPT !.conversation = Append(@, AssistantMsg(ShortcutReply))]
       \/ /\ chat.expected_tool_ids = <<>>
          /\ \E size \in 1..MaxBatch :
                LET calls == BatchAt(Len(chat.conversation), size) IN
                chat' = [chat EXCEPT !.conversation = Append(@, AssistantToolMsg(NoText, calls)),
                                     !.expected_tool_ids = CallIds(calls)]
       \/ /\ chat.expected_tool_ids # <<>>
          /\ chat' = [chat EXCEPT
                        !.conversation = @ \o [k \in 1..Len(chat.expected_tool_ids) |->
                                                  ToolMsg(chat.expected_tool_ids[k], TRUE)],
                        !.expected_tool_ids = <<>>]
    /\ UNCHANGED <<hist, _tools, _STATIC_SYSTEM_PROMPT_CACHE,
                   _pending_viewport_image>>
    /\ PromptFrame

\* build_messages(conversation, max_history, max_rounds)
PromptBuild ==
    /\ Spend(1)
    /\ \E max_history \in HistoryLimits, max_rounds \in RoundLimits :
          Commit(build_messages(World, max_history, max_rounds))
    /\ PromptFrame

\* invalidate_prompt_cache(), as _on_clear calls it
PromptInvalidate ==
    /\ Spend(1)
    /\ _STATIC_SYSTEM_PROMPT_CACHE # None
    /\ _STATIC_SYSTEM_PROMPT_CACHE' = None
    /\ UNCHANGED <<chat, hist, _tools, _pending_viewport_image>>
    /\ PromptFrame

NextPrompt ==
    \/ PromptAppend
    \/ PromptBuild
    \/ PromptInvalidate

InitPrompt ==
    /\ Init0
    /\ left = [workers |-> 0, events |-> PromptOps, http |-> 0]

SpecPrompt == InitPrompt /\ [][NextPrompt]_vars

\* ---------------------------------------------------------------------- C22
Users(conv) == Cardinality({i \in 1..Len(conv) : conv[i].role = "user"})

IsSuffix(slice, conv) ==
    /\ Len(slice) <= Len(conv)
    /\ slice = SubSeq(conv, Len(conv) - Len(slice) + 1, Len(conv))

\* The slice is the last n rounds of the conversation, no more and no less.
LastRounds(slice, conv, n) ==
    /\ slice # <<>>
    /\ slice[1].role = "user"
    /\ IsSuffix(slice, conv)
    /\ Users(slice) = n

\* C22: when the conversation given to build_messages holds more than
\* max_rounds user messages, the history slice it returns starts at a user
\* message and holds exactly the last max_rounds rounds.
C22_RoundBoundary ==
    Users(hist.built.conversation) > hist.built.max_rounds =>
        LastRounds(hist.built.history, hist.built.conversation, hist.built.max_rounds)

\* The same, for the calls in which the last max_rounds rounds hold at most
\* max_history messages: the ceiling then leaves the round window as it is.
C22_WindowWithinCeiling ==
    LET b == hist.built IN
    (/\ Users(b.conversation) > b.max_rounds
     /\ \E slice \in {SubSeq(b.conversation, p, Len(b.conversation)) :
                         p \in 1..Len(b.conversation)} :
           /\ LastRounds(slice, b.conversation, b.max_rounds)
           /\ Len(slice) <= b.max_history)
    => LastRounds(b.history, b.conversation, b.max_rounds)

\* ---------------------------------------------------------------------- C23
\* C23: two calls of build_messages that were given the same conversation
\* and found the same tools registered returned the same static system
\* content.
C23_StaticPromptStable ==
    \A a, b \in hist.builds :
        (a.conversation = b.conversation /\ a.tools = b.tools) => a.system = b.system

\* ------------------------------------------- one streamed tool-call response
\* json.loads, on the argument texts of the model: an object with no member
\* or with one member whose value is a number; anything else does not parse.
Digits == <<"0", "1", "2", "3", "4", "5", "6", "7", "8", "9">>

DigitValue(c) == (CHOOSE d \in 1..10 : Digits[d] = c) - 1

RECURSIVE NumberValue(_)
NumberValue(text) ==
    IF text = <<>> THEN 0
    ELSE 10 * NumberValue(SubSeq(text, 1, Len(text) - 1)) + DigitValue(text[Len(text)])

ParseError == [ok |-> FALSE, members |-> {}]

json_loads(text) ==
    IF Len(text) < 2 \/ text[1] # "{" \/ text[Len(text)] # "}" THEN ParseError
    ELSE IF Len(text) = 2 THEN [ok |-> TRUE, members |-> {}]
    ELSE IF /\ Len(text) >= 5
            /\ text[3] = ":"
            /\ \A k \in 4..(Len(text) - 1) : text[k] \in Range(Digits)
         THEN [ok |-> TRUE,
               members |-> {<<text[2], NumberValue(SubSeq(text, 4, Len(text) - 1))>>}]
         ELSE ParseError

\* The arguments strings a provider streams: two objects, one with a value of
\* two digits, and a text that is no JSON.
ArgTexts ==
    {<<"{", "}">>, <<"{", "a", ":", "1", "2", "}">>, <<"{", "a", ":">>}

\* The longest arguments piece in one fragment.
MaxFragment == 3

StreamedCall(k, arguments) ==
    [id |-> CallId(1, k), name |-> <<"zero_out_transforms">>, arguments |-> arguments]

\* The bodies: MaxBatch calls or fewer, each with one of the texts.
Bodies ==
    UNION {[1..n -> ArgTexts] : n \in 1..MaxBatch}

Min(a, b) == IF a < b THEN a ELSE b

\* The provider streams the next fragment of the call at position k: the
\* first fragment of a call carries its id and its name and may carry the
\* start of the arguments; a later one carries more of the arguments, with or
\* without the id. _handle_stream reads the line with the flag clear.
StreamToolCallDelta(i) ==
    LET wk == workers[i]
        body == wk.resp
    IN
    /\ wk.pc = "stream"
    /\ ~wk.cancelled
    /\ \E k \in 1..Len(body.calls) :
          LET rest == Len(body.calls[k].arguments) - body.sent[k]
              first == k \notin body.opened
          IN  \E n \in (IF first THEN 0 ELSE 1)..Min(MaxFragment, rest),
                 with_id \in (IF first THEN {TRUE} ELSE BOOLEAN) :
                 LET tc_delta ==
                        [index |-> k - 1,
                         id |-> IF with_id THEN body.calls[k].id ELSE 0,
                         name |-> IF first THEN body.calls[k].name ELSE <<>>,
                         arguments |-> SubSeq(body.calls[k].arguments,
                                              body.sent[k] + 1, body.sent[k] + n)]
                 IN  Put(i, [wk |-> [wk EXCEPT
                                       !.tool_calls_accum = AccumulateDelta(@, tc_delta),
                                       !.resp.sent[k] = @ + n,
                                       !.resp.opened = @ \cup {k},
                                       !.resp.first = IF @ = 0 THEN k ELSE @,
                                       !.resp.last = k,
                                       !.resp.resumed =
                                           IF k \in body.opened /\ body.last # k
                                           THEN @ \cup {k} ELSE @],
                             ev |-> <<>>])
    /\ UNCHANGED <<chat, deferred, dialogs, auto_approve, hist, left, services>>

\* The line `data: [DONE]` follows the last fragment.
StreamDone(i) ==
    /\ workers[i].resp.opened = 1..Len(workers[i].resp.calls)
    /\ \A k \in workers[i].resp.opened :
          workers[i].resp.sent[k] = Len(workers[i].resp.calls[k].arguments)
    /\ WDone(i)

NextStream ==
    \/ StreamToolCallDelta(1)
    \/ StreamDone(1)

\* The first request of a session after urlopen returned the response.
AtStream ==
    LET w == OnSend(World0, Question)
        started == LoopTop(w.workers[1], 1, <<StatusEvent(1, "thinking")>>).wk
    IN  [w EXCEPT !.workers[1] = AfterUrlopen(started, 1, 200).wk]

InitStream ==
    /\ \E w \in {AtStream}, texts \in Bodies :
          /\ chat = w.chat
          /\ workers = [w.workers EXCEPT ![1].resp =
                           [NoBody EXCEPT
                              !.calls = [k \in 1..Len(texts) |-> StreamedCall(k, texts[k])],
                              !.sent = [k \in 1..Len(texts) |-> 0]]]
          /\ deferred = w.deferred
          /\ hist = w.hist
          /\ memory_cache = w.cache
          /\ _records = w.records
          /\ now = w.now
          /\ _tools = w.tools
          /\ _STATIC_SYSTEM_PROMPT_CACHE = w.prompt
          /\ _pending_viewport_image = w.image
          /\ undo_depth = w.undo
    /\ queue = <<>>
    /\ dialogs = <<>>
    /\ auto_approve = FALSE
    /\ last_call = NoCall
    /\ left = [workers |-> 1, events |-> 0, http |-> 0]

SpecStream == InitStream /\ [][NextStream]_vars

\* ---------------------------------------------------------------------- C24
\* The tool_calls_received notification of the streamed response.
Reported == SelectSeq(queue, LAMBDA e : e.sig = "tool_calls")

\* C24: when the stream has ended, the calls reported are the calls the
\* provider streamed, in index order, and each one's accumulated arguments
\* string is the unfragmented string, which json.loads reads the same way,
\* whatever the fragment boundaries and the interleaving of the calls were.
C24_FragmentsReassemble ==
    \A e \in Range(Reported) :
        LET body == workers[e.w].resp.calls IN
        /\ Len(e.calls) = Len(body)
        /\ \A k \in 1..Len(body) :
              /\ e.calls[k].id = body[k].id
              /\ e.calls[k].name = body[k].name
              /\ e.calls[k].arguments = body[k].arguments
              /\ json_loads(e.calls[k].arguments) = json_loads(body[k].arguments)

\* Two calls were streamed, the second one's first fragment before the
\* first one's, the fragments of the two interleaved, an arguments string in
\* more than one fragment, and the batch was reported.
C24_Witness ==
    /\ Reported # <<>>
    /\ LET body == workers[1].resp IN
       /\ Len(body.calls) = 2
       /\ body.first = 2
       /\ 2 \in body.resumed
       /\ json_loads(body.calls[2].arguments).ok
       /\ json_loads(body.calls[2].arguments).members # {}

\* ---------------------------------------------------------------------- C25
\* A registered callable is invoked in this step.
Invocation ==
    \/ hist'.invoked # hist.invoked
    \/ hist'.direct # hist.direct

\* The step is a callback of the idle queue, which runs in the main thread:
\* the oldest executeDeferred job is taken, no worker thread moves, no queued
\* signal is emitted or delivered.
IdleCallback ==
    /\ deferred # <<>>
    /\ deferred' = Tail(deferred)
    /\ queue' = queue
    /\ \A i \in 1..Len(workers) : workers'[i] = workers[i]

\* C25: a tool callable is invoked only in a callback that executeDeferred
\* scheduled onto the main thread, and the callable invoked is that job's:
\* never in a step of an LLMWorker thread, and never inside the delivery of a
\* worker's notification.
C25_ToolsRunDeferred ==
    [][Invocation =>
          /\ IdleCallback
          /\ hist'.invoked \subseteq hist.invoked \cup {Head(deferred).id}
          /\ hist'.direct \in {hist.direct, Append(hist.direct, Head(deferred).name)}]_vars

\* A batch that a worker reported was dispatched and its tool has run, while
\* another worker thread is in its run().
C25_Witness ==
    /\ hist.invoked # {}
    /\ \E i \in 1..Len(workers) :
          /\ workers[i].ended = "tool_calls"
          /\ CallId(i, 1) \in hist.invoked
    /\ \E j \in 1..Len(workers) : workers[j].pc \notin {"start", "done"}

\* ---------------------------------------------------------------------- C26
\* _on_response called store() and the cache took the pair.
ResponseStored ==
    /\ ResponseDelivered
    /\ memory_cache' # memory_cache

\* The request of worker i was started by _on_all_tools_done: its response is
\* the continuation of a turn in which a tool-call batch was received.
ContinuesToolBatch(i) == workers[i].round > 0

\* C26: the cache stores a response only if it is a text of at least 10
\* characters produced in a turn in which no tool-call batch was received:
\* the response of a request that continues a tool batch is never stored.
C26_StoresOnlyToolFreeText ==
    [][ResponseStored =>
          /\ TextLen(Head(queue).text) >= MinResponseLen
          /\ ~hist.turn_tools
          /\ ~ContinuesToolBatch(Head(queue).w)]_vars

\* What _last_used_tools guarantees: a stored text has at least 10 characters
\* and no tool-call batch arrived since the latest submission.
C26_NoBatchSinceSubmission ==
    [][ResponseStored =>
          /\ TextLen(Head(queue).text) >= MinResponseLen
          /\ ~hist.turn_tools]_vars

\* ---------------------------------------------------------------------- C27
\* The text of the submission that the request of worker i answers: the
\* latest user message of the messages it was started with.
SubmissionOf(i) ==
    LET m == workers[i].messages
        users == {k \in 1..Len(m) : m[k].role = "user"}
    IN  IF users = {} THEN <<>>
        ELSE m[CHOOSE k \in users : \A j \in users : j <= k].content

\* The step appends exactly one record, which pairs user_input with reply,
\* and leaves every record that exists as it is.
LoggedNext(user_input, reply, is_shortcut) ==
    /\ Len(_records') = Len(_records) + 1
    /\ SubSeq(_records', 1, Len(_records)) = _records
    /\ _records'[Len(_records')].user_input = user_input
    /\ _records'[Len(_records')].assistant_reply = reply
    /\ _records'[Len(_records')].is_shortcut = is_shortcut

\* The steps that complete an interaction: the text response of a request,
\* the callback of a shortcut, a submission answered from the cache.
Completes ==
    \/ ResponseDelivered
    \/ ShortcutRuns
    \/ \E text \in Queries : CacheHit(text)

C27_OneAppendPerStep ==
    /\ [][Completes =>
            /\ Len(_records') = Len(_records) + 1
            /\ SubSeq(_records', 1, Len(_records)) = _records]_vars
    /\ [][~Completes => _records' = _records]_vars

\* ---------------------------------------------------------------------- C28
\* LLMWorker hands _on_tool_calls the text json.dumps wrote, which always
\* parses. Here the slot is also given that text cut short, the case its
\* except branch is written for.
DeliverMalformed ==
    /\ queue # <<>>
    /\ Head(queue).sig = "tool_calls"
    /\ queue' = Tail(queue)
    /\ OnToolCalls(CutShort(payload_dumps(Head(queue).text, Head(queue).calls)))
    /\ UNCHANGED <<auto_approve, left, now, last_call>>

NextPayload ==
    \/ Next
    \/ DeliverMalformed

SpecPayload == InitCore /\ [][NextPayload]_vars

\* _on_tool_calls has handled a payload that json.loads rejected.
MalformedDelivered ==
    /\ queue # <<>>
    /\ Head(queue).sig = "tool_calls"
    /\ queue' = Tail(queue)
    /\ ~hist'.parsed

\* C28: when the payload handed to _on_tool_calls cannot be parsed, the
\* controller shows an error and does nothing else: the round counter and
\* the conversation are as before, no batch is expected, put before the user
\* or handed to the executor, no tool is scheduled or run, no request starts.
C28_MalformedPayload ==
    [][MalformedDelivered =>
          /\ chat'.display = Append(chat.display, "error")
          /\ chat'.tool_round = chat.tool_round
          /\ Conv' = Conv
          /\ chat'.expected_tool_ids = chat.expected_tool_ids
          /\ chat'.pending_tool_results = chat.pending_tool_results
          /\ dialogs' = dialogs
          /\ deferred' = deferred
          /\ workers' = workers
          /\ hist'.batches = hist.batches
          /\ hist'.invoked = hist.invoked
          /\ hist'.results = hist.results]_vars

\* The second request of a turn was answered by a batch whose payload did
\* not parse: the error is shown, the round counter still counts the one
\* round that was completed, the batch was never dispatched, and the
\* controller is idle after the worker's finished signal.
C28_Witness ==
    /\ ~hist.parsed
    /\ Len(workers) = 2
    /\ workers[2].ended = "tool_calls"
    /\ chat.tool_round = 1
    /\ CallId(2, 1) \notin UNION hist.batches
    /\ chat.display # <<>>
    /\ chat.display[Len(chat.display)] = "error"
    /\ queue = <<>>
    /\ ~chat.busy

\* ---------------------------------------------------------------------- C29
\* urlopen of worker i raises HTTP 400 on a request that carries
\* stream_options (the include-usage hint).
HintRejected(i) ==
    /\ workers[i].pc = "urlopen"
    /\ workers[i].stream_options
    /\ workers'[i].requests = workers[i].requests + 1
    /\ workers'[i].last_code = 400

\* C29: when a request that carries the include-usage hint is rejected with
\* HTTP 400, the client sends the request again at once, without the hint
\* and without a delay, and the fallback is not counted: the attempts that
\* remained before it remain after it.
C29_FallbackNotCounted ==
    [][\A i \in 1..Len(workers) :
          (HintRejected(i) /\ ~workers[i].cancelled) =>
              /\ workers'[i].pc = "urlopen"
              /\ ~workers'[i].stream_options
              /\ workers'[i].waits = workers[i].waits
              /\ workers'[i].attempt = workers[i].attempt]_vars

\* What the loop does: the fallback is sent at once and without the hint
\* while an attempt remains, and it takes that attempt; rejected on the last
\* attempt, the request is not sent again.
C29_FallbackTakesAttempt ==
    [][\A i \in 1..Len(workers) :
          (HintRejected(i) /\ ~workers[i].cancelled) =>
              /\ workers'[i].waits = workers[i].waits
              /\ IF AttemptRemains(workers[i].attempt)
                 THEN /\ workers'[i].pc = "urlopen"
                      /\ ~workers'[i].stream_options
                      /\ workers'[i].attempt = workers[i].attempt + 1
                 ELSE /\ workers'[i].pc = "done"
                      /\ workers'[i].requests = _MAX_RETRIES]_vars

\* ---------------------------------------------------------------------- C30
\* urlopen of worker i fails with no response (URLError) or with a retryable
\* HTTP status.
FailedRetryably(i) ==
    /\ workers[i].pc = "urlopen"
    /\ workers'[i].requests = workers[i].requests + 1
    /\ workers'[i].last_code = 0 \/ Retryable(workers'[i].last_code)

\* The failure is followed by time.sleep with a delay longer than every
\* delay of the run so far, and a request remains to be made after it.
BacksOff(i) ==
    /\ workers'[i].pc = "sleep"
    /\ workers'[i].requests < _MAX_RETRIES
    /\ Len(workers'[i].waits) = Len(workers[i].waits) + 1
    /\ SubSeq(workers'[i].waits, 1, Len(workers[i].waits)) = workers[i].waits
    /\ Increasing(workers'[i].waits)

\* The failure was that of the last request the run may make: run() returns
\* after emitting error_occurred, its only terminal notification.
GivesUp(i) ==
    /\ workers'[i].requests = _MAX_RETRIES
    /\ workers'[i].pc = "done"
    /\ workers'[i].waits = workers[i].waits
    /\ workers'[i].terminals = 1
    /\ workers'[i].ended = "error"
    /\ \E k \in 1..Len(queue') : queue'[k].w = i /\ queue'[k].sig = "error"

\* C30: failures without a response and retryable HTTP failures draw on one
\* budget. A run never makes more than _MAX_RETRIES requests, whatever the
\* mixture of failures; each such failure but the last is followed by a
\* backoff longer than the one before, and a request is made only after the
\* backoff has passed; the failure of the last request ends the run with an
\* error shown to the user.
C30_SharedRetryBudget ==
    /\ [][\A i \in 1..Len(workers') : workers'[i].requests <= _MAX_RETRIES]_vars
    /\ [][\A i \in 1..Len(workers) :
            FailedRetryably(i) => (BacksOff(i) \/ GivesUp(i))]_vars
    /\ [][\A i \in 1..Len(workers) :
            workers[i].pc = "sleep" => workers'[i].requests = workers[i].requests]_vars

\* A run used up the budget on a mixture: one request got no response, the
\* others a retryable HTTP status; it backed off 1.5 s and 3 s and ended with
\* an error.
C30_Witness ==
    \E i \in 1..Len(workers) :
        /\ workers[i].pc = "done"
        /\ workers[i].requests = _MAX_RETRIES
        /\ workers[i].url_errors = 1
        /\ Retryable(workers[i].last_code)
        /\ workers[i].waits = <<Wait(0), Wait(1)>>
        /\ workers[i].ended = "error"

\* ------------------------------------------------- the capture tool in use
\* The provider streams a call of capture_viewport, a tool whose schema the
\* request carried.
WCaptureCall(i) ==
    LET wk == workers[i] IN
    /\ wk.pc = "stream"
    /\ ~wk.cancelled
    /\ "capture_viewport" \in wk.tools
    /\ Len(wk.tool_calls_accum) < MaxBatch
    /\ LET call == [id |-> CallId(i, Len(wk.tool_calls_accum) + 1),
                    name |-> "capture_viewport", arguments |-> "json"]
       IN  Put(i, [wk |-> [wk EXCEPT !.tool_calls_accum = Append(@, call)],
                   ev |-> <<>>])
    /\ UNCHANGED <<chat, deferred, dialogs, auto_approve, hist, left, services>>

NextVision ==
    \/ Next
    \/ \E i \in 1..Len(workers) : WCaptureCall(i)

SpecVision == InitCore /\ [][NextVision]_vars

\* ---------------------------------------------------------------------- C31
\* How often build_messages attached capture c to a message.
TimesAttached(c) ==
    Cardinality({k \in 1..Len(hist.attached) : hist.attached[k] = c})

\* C31: every capture that capture_viewport_tool stored is either still
\* pending or was attached as an image part to exactly one built prompt; none
\* was cleared (or replaced) without having been attached, none is attached
\* twice, and a capture that was attached is pending no longer.
C31_CaptureConsumedOnce ==
    /\ hist.lost = {}
    /\ \A c \in 1..hist.captures :
          IF c = _pending_viewport_image
          THEN TimesAttached(c) = 0
          ELSE TimesAttached(c) = 1

\* What get_pending_image guarantees: no capture is attached twice, and none
\* that was fetched stays pending.
C31_AtMostOnce ==
    \A c \in 1..hist.captures :
        /\ TimesAttached(c) <= 1
        /\ (TimesAttached(c) = 1 \/ c \in hist.lost) => c # _pending_viewport_image

\* ---------------------------------------------------------------------- C32
\* The position of the latest user message in a message list, 0 if none.
LatestUser(history) ==
    LET users == {k \in 1..Len(history) : history[k].role = "user"}
    IN  IF users = {} THEN 0 ELSE CHOOSE k \in users : \A j \in users : j <= k

\* C32: in the message list of every request, the first of a turn and every
\* follow-up after tool results, the context block is prepended to the
\* latest user message of the list, and to that message only.
C32_ContextOnLatestUser ==
    \A i \in 1..Len(workers) :
        workers[i].context_at = LatestUser(workers[i].messages)

\* What the loop guarantees: a list that closes with a user message has the
\* block on that message; a list that closes otherwise has it nowhere.
C32_ContextOnClosingUser ==
    \A i \in 1..Len(workers) :
        LET m == workers[i].messages IN
        workers[i].context_at =
            IF m # <<>> /\ m[Len(m)].role = "user" THEN Len(m) ELSE 0

\* ---------------------------------------------------------------------- C33
\* The latest execution_finished emission.
LastResult(h) == h.results[Len(h.results)]

\* C33: the invocation of a registered tool opens one undo chunk and closes
\* one, whether the callable returns or raises; no chunk is open before or
\* after it, so chunks of different calls never nest; and the call is
\* answered in the same callback by one result, a failure if the callable
\* raised.
C33_UndoTransaction ==
    /\ [](undo_depth = 0 /\ hist.opened = hist.closed)
    /\ [][\A id \in hist'.invoked \ hist.invoked :
            /\ hist'.invoked = hist.invoked \cup {id}
            /\ hist'.opened = hist.opened + 1
            /\ hist'.closed = hist.closed + 1
            /\ Len(hist'.results) = Len(hist.results) + 1
            /\ LastResult(hist').id = id
            /\ id \in hist'.raised => ~LastResult(hist').success]_vars

\* The callable of a call raised: its chunk is closed again, its result is a
\* failure, and the turn went on to the next request.
C33_Witness ==
    \E id \in hist.raised :
        /\ undo_depth = 0
        /\ hist.opened = 1
        /\ hist.closed = 1
        /\ [id |-> id, success |-> FALSE] \in Range(hist.results)
        /\ Len(workers) = 2

\* ---------------------------------------------------------------------- C34
\* A chunk is tagged with its run and its ordinal in the run: the text is the
\* first chunks of one run, each once and in the order of their emission.
InOrderOfOneRun(text) ==
    \A p \in 1..Len(text) : text[p][1] = text[1][1] /\ text[p][2] = p

\* run() of worker i returns with a final text response.
FinishesWithResponse(i) ==
    /\ i <= Len(workers)
    /\ workers[i].pc = "stream"
    /\ workers'[i].pc = "done"
    /\ workers'[i].ended = "response"

\* C34: the text accumulated on the display is at every moment a prefix of
\* what one run has emitted chunk by chunk, in the order of emission, and the
\* final text response of a run is the concatenation of all its chunks.
C34_StreamInOrder ==
    /\ [](InOrderOfOneRun(chat.streaming_content))
    /\ [][\A i \in 1..Len(workers') :
            FinishesWithResponse(i) =>
                \E k \in 1..Len(queue') :
                    /\ queue'[k].w = i
                    /\ queue'[k].sig = "response"
                    /\ queue'[k].text = workers[i].content_chunks
                    /\ InOrderOfOneRun(queue'[k].text)]_vars

\* ---------------------------------------------------------------------- C35
\* The requests whose run() has not returned and that were not cancelled.
InFlight == {i \in 1..Len(workers) : Running(i) /\ ~workers[i].cancelled}

\* C35: at most one uncancelled request is in flight, and while one is, the
\* controller is busy and _worker refers to it: no finished signal of an
\* older worker has ended its busy state or cleared the reference to it.
C35_LatestRequest ==
    /\ Cardinality(InFlight) <= 1
    /\ \A i \in InFlight : chat.busy /\ chat.worker = i

\* ---------------------------------------------------------------------- C36
\* A batch is open: its dialog is up, or results of it are still awaited.
BatchOpen == dialogs # <<>> \/ chat.expected_tool_ids # <<>>

\* C36: while a batch is open the controller is busy, and in the conversation
\* no user message stands right after an assistant message with tool calls,
\* where the tool messages of the batch belong.
C36_BusyDuringBatch ==
    /\ BatchOpen => chat.busy
    /\ \A k \in 1..(Len(Conv) - 1) :
          Conv[k].tool_calls # <<>> => Conv[k + 1].role # "user"

\* ---------------------------------------------------------------------- C37
\* The event loop delivers a chunk, a final response or a tool-call batch of
\* a worker that a stop has cancelled.
LateDelivery ==
    /\ queue # <<>>
    /\ queue' = Tail(queue)
    /\ Head(queue).sig \in {"chunk", "response", "tool_calls"}
    /\ workers[Head(queue).w].cancelled

\* C37: a notification of a cancelled worker that is delivered after the stop
\* leaves the conversation as it is, opens no confirmation dialog and hands
\* nothing to the executor.
C37_StoppedStaysSilent ==
    [][LateDelivery =>
          /\ Conv' = Conv
          /\ dialogs' = dialogs
          /\ deferred' = deferred]_vars

\* ---------------------------------------------------------------------- C38
\* The scheduling the program runs under: a started thread runs to its end,
\* the event loop delivers queued signals and runs idle callbacks, and the
\* user answers an open dialog.
Fairness ==
    /\ WF_vars(Deliver)
    /\ WF_vars(RunDeferred)
    /\ WF_vars(DialogAnswer)
    /\ \A i \in 1..CoreWorkers : WF_vars(i <= Len(workers) /\ WorkerStep(i))

SpecLive == InitCore /\ [][Next]_vars /\ Fairness

\* The budget of the run is used up while a signal or a callback waits. Where
\* that lasts, the waiting step is one that would create a worker beyond the
\* budget, and the exploration ends there.
CutOff ==
    /\ Len(workers) = left.workers
    /\ queue # <<>> \/ deferred # <<>>

\* C38: under the scheduling above the controller is idle again and again:
\* no busy state lasts forever (in a run that the budget does not cut off).
C38_BackToIdle == []<>(~chat.busy) \/ <>[]CutOff

\* A turn with a tool round is over: the batch was run, the follow-up request
\* has answered with text, and nothing is in flight.
C38_Witness ==
    /\ Quiescent
    /\ Len(workers) = 2
    /\ hist.invoked # {}
    /\ Conv # <<>>
    /\ Conv[Len(Conv)].role = "assistant"
    /\ Conv[Len(Conv)].tool_calls = <<>>

\* ---------------------------------------------------------------------- C39
\* The tool messages among those a step appends to the conversation.
AppendedToolMsgs ==
    IF Len(Conv') > Len(Conv) /\ SubSeq(Conv', 1, Len(Conv)) = Conv
    THEN SelectSeq(SubSeq(Conv', Len(Conv) + 1, Len(Conv')),
                   LAMBDA m : m.role = "tool")
    ELSE <<>>

ToolCallIds(msgs) == [i \in 1..Len(msgs) |-> msgs[i].tool_call_id]

\* The position in hist.results of the first report of a call.
ReportedAt(id) ==
    CHOOSE n \in 1..Len(hist.results) :
        /\ hist.results[n].id = id
        /\ \A n2 \in 1..(n - 1) : hist.results[n2].id # id

\* C39: the tool messages a step appends are those of one batch, one for each
\* call, in the order of the calls in the assistant message that requested
\* them.
C39_ToolMessagesInRequestOrder ==
    [][AppendedToolMsgs # <<>> =>
          \E k \in 1..Len(Conv') :
              CallIds(Conv'[k].tool_calls) = ToolCallIds(AppendedToolMsgs)]_vars

\* A batch of two calls whose second result was reported first, and whose
\* tool messages stand in the order of the request.
C39_Witness ==
    \E k \in 1..(Len(Conv) - 2) :
        /\ Len(Conv[k].tool_calls) = 2
        /\ Conv[k + 1].role = "tool"
        /\ Conv[k + 2].role = "tool"
        /\ Conv[k + 1].tool_call_id = Conv[k].tool_calls[1].id
        /\ Conv[k + 2].tool_call_id = Conv[k].tool_calls[2].id
        /\ {Conv[k].tool_calls[1].id, Conv[k].tool_calls[2].id}
               \subseteq {hist.results[n].id : n \in 1..Len(hist.results)}
        /\ ReportedAt(Conv[k].tool_calls[2].id) < ReportedAt(Conv[k].tool_calls[1].id)

\* ---------------------------------------------------------------------- C40
\* The user approves the batch of the open dialog.
Approves ==
    /\ dialogs # <<>>
    /\ dialogs' = SubSeq(dialogs, 1, Len(dialogs) - 1)
    /\ Range(CallIds(dialogs[Len(dialogs)])) \subseteq hist'.accepted

\* _on_clear empties the conversation.
Clears == Conv # <<>> /\ Conv' = <<>>

\* The event loop delivers a tool-call batch to _on_tool_calls.
BatchArrives ==
    /\ queue # <<>>
    /\ queue' = Tail(queue)
    /\ Head(queue).sig = "tool_calls"

\* C40: the flag goes up only in a step in which the user approves a batch
\* and goes down only in a clear; a clear leaves it down; a batch that
\* arrives while it is up opens no dialog, and one that arrives while it is
\* down opens one.
C40_AutoApproveFlag ==
    [][/\ (~auto_approve /\ auto_approve') => Approves
       /\ (auto_approve /\ ~auto_approve') => Clears
       /\ Clears => ~auto_approve'
       /\ BatchArrives =>
             dialogs' = IF auto_approve THEN dialogs
                        ELSE Append(dialogs, Head(queue).calls)]_vars

\* A batch went through without a dialog while the flag was up; the
\* conversation was cleared since, and the next batch waits in a dialog.
C40_Witness ==
    /\ hist.auto_ok # {}
    /\ ~auto_approve
    /\ dialogs # <<>>
    /\ Range(CallIds(dialogs[Len(dialogs)])) \cap hist.auto_ok = {}

====
